----------------------------- MODULE MCFatfsVfs -----------------------------
(***************************************************************************)
(* Two tasks, a volume on each RAM disk and one with a bad disk number.    *)
(***************************************************************************)
EXTENDS FatfsVfs, TLC

CONSTANTS t1, t2, va, vb, vbad, ram0, ram1

TwoTasks == {t1, t2}
OneTask == {t1}
ThreeVolumes == {va, vb, vbad}
TwoVolumes == {va, vb}
RamDisks == {ram0, ram1}
MCDiskOf == [d \in Descs |-> CASE d = va -> ram0 [] d = vb -> ram1 [] d = vbad -> NoDisk]
=============================================================================
