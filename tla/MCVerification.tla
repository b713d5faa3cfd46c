--------------------------- MODULE MCVerification ---------------------------
(* Each way to judge a deliverable: at its URL by its hash, by a rubric,   *)
(* by its text (and a rubric that came without its hash), or by the page   *)
(* alone; delivered inline, by a hash and a rubric, by a rubric that was   *)
(* not committed to, or by its text.                                       *)
EXTENDS Verification

Ask(inline, hash, rubric, content) ==
    [inline |-> inline, hash |-> hash, rubric |-> rubric, content |-> content]

MCSpecs == {Ask(FALSE, TRUE, "none", FALSE), Ask(FALSE, FALSE, "committed", FALSE),
            Ask(FALSE, FALSE, "bare", TRUE), Ask(FALSE, FALSE, "none", FALSE),
            Ask(TRUE, TRUE, "committed", FALSE), Ask(TRUE, FALSE, "other", FALSE),
            Ask(TRUE, FALSE, "none", TRUE)}
=============================================================================
