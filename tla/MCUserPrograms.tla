--------------------------- MODULE MCUserPrograms ---------------------------
(***************************************************************************)
(* UserPrograms with the eight builds of the makefile's options, programs  *)
(* of three instructions and three settings of -dt for paging, and the     *)
(* programs of MIPSManual.tla for the processor.                         *)
(***************************************************************************)
EXTENDS UserPrograms

MCBuilds == [replace : {"FIFO", "LRU"}, rpt : BOOLEAN, tlb : BOOLEAN]
Read(v) == [page |-> v, writing |-> FALSE]
Write(v) == [page |-> v, writing |-> TRUE]
MCPrograms == {<<Write(1), Write(2), Read(1)>>, <<Read(2), Write(1), Read(2)>>,
               <<Write(2), Write(2), Write(1)>>}
MCPauses == {<<>>, <<2, 3, 5>>, <<4, 4, 4>>}

MCData == 128 .. 159
P == INSTANCE MIPSManual
MCLoads == P!ProgramTexts
=============================================================================
