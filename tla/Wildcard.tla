------------------------------ MODULE Wildcard ------------------------------
(***************************************************************************)
(* wildcard_match_impl of src/matcher.rs: a tokenized pattern is matched   *)
(* against a text with two pointers, one turn of a loop a step.  Indexes   *)
(* count from 0, as in the code: the token at pi is tokens[pi + 1].        *)
(***************************************************************************)
EXTENDS Tokens, Integers

CONSTANTS TokenSeqs,     \* the tokenized patterns to consider
          Texts          \* the texts to consider

ASSUME TokensAssumption == TokenSeqs \subseteq Seq(PatTokens)
ASSUME TextsAssumption  == Texts \subseteq Seq(Chars)

VARIABLES pc,                           \* "loop", "trailing" or "done"
          pattern, text,
          pi, ti,
          star_pat_idx, star_txt_idx,   \* the last star; NoStar: none yet
          verdict                       \* what is returned

vars == <<pc, pattern, text, pi, ti, star_pat_idx, star_txt_idx, verdict>>

plen == Len(pattern)
tlen == Len(text)

NoStar == -1     \* usize::MAX

Init ==
    /\ pc = "loop"
    /\ pattern \in TokenSeqs /\ text \in Texts
    /\ pi = 0 /\ ti = 0
    /\ star_pat_idx = NoStar /\ star_txt_idx = 0
    /\ verdict = FALSE

-----------------------------------------------------------------------------
AtStar    == pi < plen /\ pattern[pi + 1] = Star
CanAccept == pi < plen /\ Accepts(pattern[pi + 1], text[ti + 1])

Advance ==
    /\ pc = "loop" /\ ti < tlen /\ CanAccept
    /\ pi' = pi + 1
    /\ ti' = ti + 1
    /\ UNCHANGED <<pc, pattern, text, star_pat_idx, star_txt_idx, verdict>>

\* Mutant of TakeStar: what is remembered is the token after the star.
TakeStar_RecordsNext ==
    /\ pc = "loop" /\ ti < tlen /\ ~CanAccept /\ AtStar
    /\ star_pat_idx' = pi + 1
    /\ star_txt_idx' = ti
    /\ pi' = pi + 1
    /\ UNCHANGED <<pc, pattern, text, ti, verdict>>

\* A star takes nothing for now.
TakeStar ==
    /\ pc = "loop" /\ ti < tlen /\ ~CanAccept /\ AtStar
    /\ star_pat_idx' = pi
    /\ star_txt_idx' = ti
    /\ pi' = pi + 1
    /\ UNCHANGED <<pc, pattern, text, ti, verdict>>

\* Mutant of Backtrack: the star takes no more, so the same attempt is repeated.
Backtrack_Repeats ==
    /\ pc = "loop" /\ ti < tlen /\ ~CanAccept /\ ~AtStar /\ star_pat_idx # NoStar
    /\ pi' = star_pat_idx + 1
    /\ ti' = star_txt_idx
    /\ UNCHANGED <<pc, pattern, text, star_pat_idx, star_txt_idx, verdict>>

\* Mutant of Backtrack: the text pointer goes on from where the attempt failed.
Backtrack_Skips ==
    /\ pc = "loop" /\ ti < tlen /\ ~CanAccept /\ ~AtStar /\ star_pat_idx # NoStar
    /\ pi' = star_pat_idx + 1
    /\ star_txt_idx' = ti + 1
    /\ ti' = ti + 1
    /\ UNCHANGED <<pc, pattern, text, star_pat_idx, verdict>>

\* The last star takes one character more, and the rest is tried again.
Backtrack ==
    /\ pc = "loop" /\ ti < tlen /\ ~CanAccept /\ ~AtStar /\ star_pat_idx # NoStar
    /\ pi' = star_pat_idx + 1
    /\ star_txt_idx' = star_txt_idx + 1
    /\ ti' = star_txt_idx + 1
    /\ UNCHANGED <<pc, pattern, text, star_pat_idx, verdict>>

GiveUp ==
    /\ pc = "loop" /\ ti < tlen /\ ~CanAccept /\ ~AtStar /\ star_pat_idx = NoStar
    /\ pc' = "done" /\ verdict' = FALSE
    /\ UNCHANGED <<pattern, text, pi, ti, star_pat_idx, star_txt_idx>>

TextConsumed ==
    /\ pc = "loop" /\ ti >= tlen
    /\ pc' = "trailing"
    /\ UNCHANGED <<pattern, text, pi, ti, star_pat_idx, star_txt_idx, verdict>>

SkipTrailingStar ==
    /\ pc = "trailing" /\ AtStar
    /\ pi' = pi + 1
    /\ UNCHANGED <<pc, pattern, text, ti, star_pat_idx, star_txt_idx, verdict>>

Return ==
    /\ pc = "trailing" /\ ~AtStar
    /\ pc' = "done" /\ verdict' = (pi = plen)
    /\ UNCHANGED <<pattern, text, pi, ti, star_pat_idx, star_txt_idx>>

Step ==
    \/ Advance \/ TakeStar \/ Backtrack \/ GiveUp
    \/ TextConsumed \/ SkipTrailingStar \/ Return

Returned == pc = "done" /\ UNCHANGED vars

Next == Step \/ Returned

\* A sequential loop: it runs until it returns.
Spec == Init /\ [][Next]_vars /\ WF_vars(Step)

-----------------------------------------------------------------------------
(* Properties.                                                              *)

TypeOK ==
    /\ pc \in {"loop", "trailing", "done"}
    /\ pattern \in TokenSeqs /\ text \in Texts
    /\ pi \in 0..plen /\ ti \in 0..tlen
    /\ star_pat_idx \in {NoStar} \union 0..(plen - 1)
    /\ star_txt_idx \in 0..tlen
    /\ verdict \in BOOLEAN

\* The loop returns true exactly when the text can be cut into pieces its tokens
\* take: remembering only the last star loses no match.
VerdictRight == pc = "done" => (verdict <=> Matches(pattern, text))

\* Backtracking always ends: no pattern and text make the loop run for ever.
Termination == <>(pc = "done")
=============================================================================
