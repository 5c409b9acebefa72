----------------------------- MODULE MCJitCache -----------------------------
(* Small instances of JitCache.                                               *)
EXTENDS JitCache

\* Branches to the first location and to the last, one of them conditional.
Op == "op"
Ret == "ret"
ToFirst == "b_first"
MaybeLast == "beq_last"
AllInsns == {Op, Ret, ToFirst, MaybeLast}
AllExits == {Ret, ToFirst, MaybeLast}
AllEnds == {Ret, ToFirst}
PlainInsns == {Op, Ret}
PlainExits == {Ret}
TargetOf(i) == IF i = ToFirst THEN First ELSE IF i = MaybeLast THEN Last ELSE Nowhere
=============================================================================
