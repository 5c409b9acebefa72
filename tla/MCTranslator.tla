---------------------------- MODULE MCTranslator ----------------------------
(* Blocks of at most four instructions of a small book.                       *)
EXTENDS Translator

I(does, on, to) == [does |-> does, on |-> on, to |-> to]
Marks == {{2, 3, 4}}
Book ==
  {I("mov1", "al", 0), I("cmp", "al", 0), I("tst", "al", 0), I("lsl", "al", 0),
   I("adc", "al", 0), I("ldr", "eq", 0), I("cmp", "eq", 0), I("str", "eq", 0), I("mul", "eq", 0),
   I("b", "cs", 4), I("b", "ne", 9), I("bx", "al", 0)}
=============================================================================
