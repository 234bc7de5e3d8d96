------------------------------ MODULE MCXfer -------------------------------
(* Small processes: two contexts each, pools of two blocks on pages of 8.  *)
EXTENDS Xfer

Dev(base, kind, elem) == MakeKvPool(base, kind, "", <<2, 2, 1>>, elem, 1)
Scratch(elem) == MakeKvPool(1000, "cpu", "", <<3, 2, 1>>, elem, 0)
Flow(pool, dir, first, group, calls) ==
  [owner |-> "flow", pool |-> pool, cpu |-> "scratch", dir |-> dir, first |-> first,
   group |-> group, calls |-> calls]
Copier(n, gpu, dir, calls) ==
  [owner |-> "copier", pool |-> gpu, cpu |-> n, dir |-> dir, first |-> FALSE,
   group |-> 1, calls |-> calls]
Proc(kind, dsa, sync, reset, faults, pools, jobs) ==
  [kind |-> kind, dsa |-> dsa, syncGet |-> sync, reset |-> reset, faults |-> faults,
   pools |-> pools, jobs |-> jobs]

GpuPools(elem) == [k |-> Dev(0, "gpu", elem), v |-> Dev(64, "gpu", elem), scratch |-> Scratch(elem)]
Both == << << <<1, 0>>, <<0, 1>> >> >>
TwoCalls == << << <<0, 2>> >>, << <<1, 1>> >> >>

\* put of two layers; get of one layer while another put runs; two copiers.
Put == <<Flow("k", D2H, TRUE, 1, TwoCalls), Flow("v", D2H, FALSE, 1, Both)>>
PutGet == <<Flow("k", D2H, TRUE, 1, Both), Flow("k", H2D, TRUE, 2, << << <<1, 2>> >> >>)>>
CopierPools == [k |-> Dev(0, "gpu", 8), v |-> Dev(64, "gpu", 8),
                s1 |-> Scratch(8), s2 |-> [Scratch(8) EXCEPT !.base = 2000]]
Copiers == <<Copier("s1", "k", D2H, Both), Copier("s2", "v", H2D, TwoCalls)>>

\* Hybrid layers of a client share a buffer; CPU blocks are used in place.
RemotePools == [k |-> Dev(0, "remote", 8), v |-> Dev(0, "remote", 8), scratch |-> Scratch(8)]
RemoteJobs == <<Flow("k", D2H, TRUE, 1, TwoCalls), Flow("v", H2D, TRUE, 1, Both)>>
CpuPools == [k |-> MakeKvPool(0, "cpu", "", <<2, 1>>, 8, 0)]
InPlace(dir, calls) == [Flow("k", dir, TRUE, 1, calls) EXCEPT !.cpu = "k"]
CpuJobs == <<InPlace(D2H, <<>>), InPlace(H2D, << << <<0, 0>>, <<1, 1>> >> >>)>>

\* IAXL_CACHE_STREAM_SYNC_ON_GET is off by default; it only matters to a get on a GPU.
MCProcs ==
  {Proc("gpu", FALSE, TRUE, FALSE, {}, GpuPools(8), PutGet),
   Proc("gpu", FALSE, FALSE, FALSE, {}, GpuPools(8), PutGet),
   Proc("gpu", TRUE, FALSE, FALSE, {"batch"}, GpuPools(8), Put),
   Proc("gpu", TRUE, TRUE, TRUE, {"pin"}, GpuPools(8), PutGet),
   Proc("gpu", TRUE, FALSE, TRUE, {"pin"}, GpuPools(8), PutGet),
   Proc("gpu", TRUE, FALSE, FALSE, {}, GpuPools(4), Put),
   Proc("gpu", TRUE, FALSE, FALSE, {}, GpuPools(16), Put),
   Proc("gpu", TRUE, FALSE, TRUE, {}, CopierPools, Copiers),
   Proc("remote", FALSE, FALSE, FALSE, {"rdma"}, RemotePools, RemoteJobs),
   Proc("cpu", FALSE, TRUE, FALSE, {}, CpuPools, CpuJobs)}
=============================================================================
