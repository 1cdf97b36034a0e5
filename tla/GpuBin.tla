-------------------------------- MODULE GpuBin --------------------------------
(***************************************************************************)
(* The .gpubin file as a sequence of 32-bit words: what asm.py writes and  *)
(* what gpubin.hpp makes of any file. The magic letters are one word, and  *)
(* version and flags are another.                                          *)
(***************************************************************************)
EXTENDS Naturals, Sequences

CONSTANT Magic

HeaderWords == 8
Header(code, kconst, entry) == <<Magic, 1, Len(code), Len(kconst), entry, 16, 0, 0>>
write_gpubin(p) == Header(p.code, p.kconst, p.entry) \o p.code \o p.kconst

Failed == [ok |-> FALSE, code |-> <<>>, kconst |-> <<>>, entry |-> 0]

Body(f, n, from) == SubSeq(f, HeaderWords + from + 1, HeaderWords + from + n)

load_gpubin(f) ==
  IF \/ Len(f) < HeaderWords              \* too small, or no file
     \/ f[1] # Magic
     \/ Len(f) < HeaderWords + f[3] + f[4]
  THEN Failed
  ELSE [ok |-> TRUE, code |-> Body(f, f[3], 0), kconst |-> Body(f, f[4], f[3]), entry |-> f[5]]
================================================================================
