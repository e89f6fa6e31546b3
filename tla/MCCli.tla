------------------------------- MODULE MCCli -------------------------------
(* Finite inputs for the command line tool: every pair of short chunks over   *)
(* the kinds that differ in what they do, and one longer input.               *)
EXTENDS Cli

MCKinds == {"blank", "hit", "bad_utf8", "too_large", "bad_flatten"}

Numbered(a, b) == << [start_line |-> 1, lines |-> a],
                     [start_line |-> 1 + Len(a), lines |-> b] >>

MCInputs ==
    {Numbered(<<k1, k2>>, <<k3>>) : k1, k2, k3 \in MCKinds}
        \union {Numbered(<<"clean", "hit">>, <<"bad_json", "hit", "hit">>), << >>}

BothModes == {"continue", "fail-fast"}
=============================================================================
