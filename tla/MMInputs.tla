------------------------------ MODULE MMInputs ------------------------------
(***************************************************************************)
(* The images of the requests (vllm/v1/request.py, mm_positions and        *)
(* mm_hashes).  Positions of a prompt count from 0 here, as in the code,   *)
(* and inputs from 1.                                                      *)
(***************************************************************************)
EXTENDS Integers, Sequences

CONSTANT MMPositions    \* [request -> sequence of [offset, length, hash]], by offset

ASSUME InputsAssumption ==
    \A r \in DOMAIN MMPositions :
        /\ MMPositions[r] \in Seq([offset : Nat, length : Nat \ {0}, hash : Nat])
        /\ \A i \in 2..Len(MMPositions[r]) :
              MMPositions[r][i - 1].offset + MMPositions[r][i - 1].length
              <= MMPositions[r][i].offset

InputStart(r, i) == MMPositions[r][i].offset
InputLength(r, i) == MMPositions[r][i].length
InputEnd(r, i) == InputStart(r, i) + InputLength(r, i)

Mut_Overlaps(r, i, done, n) == InputStart(r, i) < done + n /\ InputStart(r, i) >= done

\* Input i of r has a placeholder among the n tokens after the first done ones.
Overlaps(r, i, done, n) == InputStart(r, i) < done + n /\ InputEnd(r, i) > done
=============================================================================
