--------------------------- MODULE MCClientSubmit ---------------------------
(* Small instances of ClientSubmit.                                        *)
EXTENDS ClientSubmit

CONSTANTS a, b, c, d, e

Plainly ==
  [ mode |-> "auto", restricted |-> FALSE, profiled |-> FALSE,
    browserOnly |-> FALSE, plaintext |-> FALSE, tokenRequired |-> FALSE ]

(* The default client; one that may send in the clear to browser nodes;    *)
(* the strict ones; and a client with a profile request.                   *)
SomeSettings ==
  { Plainly,
    [Plainly EXCEPT !.plaintext = TRUE, !.browserOnly = TRUE],
    [Plainly EXCEPT !.mode = "ticketed", !.tokenRequired = TRUE],
    [Plainly EXCEPT !.restricted = TRUE],
    [Plainly EXCEPT !.profiled = TRUE, !.mode = "ticketed"] }
=============================================================================
