------------------------------ MODULE MCServer ------------------------------
(* Server with one setup for each kind of access control, and for each way to *)
(* stop.                                                                     *)
EXTENDS ServerProofs

Plain == [rateLimit |-> FALSE, basic |-> FALSE, token |-> FALSE,
          versions |-> 0, chmod |-> FALSE, stops |-> {"signal"}]
Canceling == [Plain EXCEPT !.stops = {"signal", "cancel"}]
Limiting  == [Plain EXCEPT !.rateLimit = TRUE]
Basic     == [Plain EXCEPT !.basic = TRUE, !.versions = 3]
Denying   == [Plain EXCEPT !.basic = TRUE, !.versions = 2, !.chmod = TRUE]
Token     == [Plain EXCEPT !.token = TRUE]

MCSetups == {Plain, Canceling, Limiting, Basic, Denying, Token}
=============================================================================
