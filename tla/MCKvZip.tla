------------------------------ MODULE MCKvZip ------------------------------
(* Two tensors of ten bytes in two segments of four and six bytes; four      *)
(* environments: one QAT instance whose two slots are driven by two threads, *)
(* IAA beside the CPU, all three back ends on undivided tensors, and no      *)
(* compression.  Every environment may load what any other has saved.        *)
EXTENDS KvZip

Base == [qatOn |-> FALSE, iaaOn |-> FALSE, cpuOn |-> FALSE, qatNum |-> 1, iaaNum |-> 1,
         cpuNum |-> 1, qatDepth |-> 1, iaaDepth |-> 0, qatPer |-> 2, iaaPer |-> 1,
         qatSel |-> <<1>>, iaaSel |-> <<>>, omp |-> 2, comp |-> TRUE, seg |-> 4,
         shuffle |-> TRUE, expOnly |-> TRUE, lossy |-> FALSE, srcCap |-> 10, dstCap |-> 12]
QatSplit == [Base EXCEPT !.qatOn = TRUE, !.qatDepth = 2]
IaaCpu == [Base EXCEPT !.iaaOn = TRUE, !.cpuOn = TRUE, !.lossy = TRUE, !.expOnly = FALSE]
AllOn == [Base EXCEPT !.qatOn = TRUE, !.iaaOn = TRUE, !.cpuOn = TRUE, !.seg = 0, !.shuffle = FALSE]
Off == [Base EXCEPT !.comp = FALSE, !.omp = 0]
MCConfigs == {QatSplit, IaaCpu, AllOn, Off}

MCQatDevices == <<2, 1>>
MCIaaDevices == <<1, 0, -1, 1>>
=============================================================================
