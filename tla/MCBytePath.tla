----------------------------- MODULE MCBytePath -----------------------------
(***************************************************************************)
(* Model checking BytePath: bytes of two bits in a ring of eight, counters *)
(* that wrap at sixteen, and traffic one way, both ways, and echoed.       *)
(***************************************************************************)
EXTENDS BytePath

Bytes == << <<1, 0>>, <<0, 1>>, <<0, 0>>, <<1, 1>>, <<1, 0>> >>

Traffic ==
    { [down |-> Bytes, up |-> <<>>, noise |-> 0, echo |-> FALSE],
      [down |-> <<>>, up |-> SubSeq(Bytes, 1, 3), noise |-> 0, echo |-> FALSE],
      [down |-> <<>>, up |-> SubSeq(Bytes, 2, 3), noise |-> 1, echo |-> FALSE],
      [down |-> SubSeq(Bytes, 1, 2), up |-> SubSeq(Bytes, 3, 3), noise |-> 0, echo |-> FALSE],
      [down |-> <<>>, up |-> SubSeq(Bytes, 2, 4), noise |-> 1, echo |-> TRUE] }
=============================================================================
