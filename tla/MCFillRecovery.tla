---------------------------- MODULE MCFillRecovery ----------------------------
(***************************************************************************)
(* Instances of FillRecovery for TLC.                                      *)
(***************************************************************************)
EXTENDS FillRecovery

\* A host clock in step, and reads that reach to the end.
Plain == [maxSpan |-> 9, maxPages |-> 9, retentions |-> {Unlimited}, offsets |-> {0},
          shortfalls |-> {}, maxFills |-> 1, maxOthers |-> 0]

\* A host clock that steps within the allowed skew.
Stepping == [Plain EXCEPT !.offsets = {-1, 0, 1}, !.maxFills = 2, !.maxOthers = 1]

\* Reads that fail or are cut, and a venue that may soon forget its fills.
Limited == [Plain EXCEPT !.maxSpan = 3, !.maxPages = 2, !.retentions = {1, Unlimited},
                         !.shortfalls = {"fails", "stopsShort"}, !.maxFills = 3]

PlainOnly == {Plain}

SteppingOrLimited == {Stepping, Limited}
=============================================================================
