------------------------------ MODULE KvPool -------------------------------
(* The geometry of a registered pool (a tensor cut into blocks along one    *)
(* dimension) and the rows of memory each transfer back end moves for it.    *)
(* Addresses are in bytes.  A row is inner_size contiguous bytes of a block; *)
(* a copied row is the record of its device and its CPU address.             *)
EXTENDS Integers, Sequences, FiniteSets, SequencesExt

\* make_kv_pool: shape is laid out contiguously, dim counts from 0.
MakeKvPool(base, device, peer, shape, elem, dim) ==
  LET Product(s) == FoldLeft(LAMBDA a, b : a * b, 1, s)
      num == shape[dim + 1]
      outer == Product(SubSeq(shape, 1, dim))
      inner == elem * Product(SubSeq(shape, dim + 2, Len(shape)))
  IN  [base |-> base, device |-> device, peer |-> peer, shape |-> shape, dim |-> dim,
       elem |-> elem, num |-> num, outer |-> outer, inner |-> inner, stride |-> inner,
       outerSize |-> num * inner, bytes |-> outer * inner, total |-> outer * num * inner]

BlockPtr(p, idx, o) == p.base + o * p.outerSize + idx * p.stride
BlockIndex(p, ptr) == ((ptr - p.base) % p.outerSize) \div p.stride
CheckIndices(p, xs, k) == \A i \in DOMAIN xs : xs[i][k] >= 0 /\ xs[i][k] < p.num
\* elem stands for the data type: types of one size are not told apart.
SameBlockGeometry(p, q) == p.bytes = q.bytes /\ p.elem = q.elem

\* register_with_tensor: pools that share a buffer must be cut alike.
MayShare(p, q) == p.base = q.base => p.shape = q.shape /\ p.dim = q.dim /\ p.elem = q.elem

(* A call is a sequence of <<chunk, block>>: block idx of the device pool     *)
(* and the CPU block it is exchanged with.                                    *)

Rows(xs, outer) == {<<i, o>> : i \in DOMAIN xs, o \in 0..(outer - 1)}
Row(dev, cpu) == [dev |-> dev, cpu |-> cpu]

\* cudaMemcpy3DBatchAsync and the loops of memcpy: outer_dims rows per chunk,
\* outer_block_size apart on the device and packed on the CPU.
StreamRows(p, q, xs) ==
  {Row((p.base + xs[r[1]][1] * p.stride) + r[2] * p.outerSize,
       BlockPtr(q, xs[r[1]][2], 0) + r[2] * p.inner) : r \in Rows(xs, p.outer)}

\* The CPU back end moves nothing when the codec worked in place.
CpuRows(p, q, xs) ==
  LET moved == SelectSeq(xs, LAMBDA x : p.base + x[1] * p.stride # BlockPtr(q, x[2], 0))
  IN  StreamRows(p, q, moved)

\* RDMA: the descriptor lists of a remote pool and of the CPU pool, and the
\* pairs of descriptors a transfer names.
RemoteDescs(p) == [k \in 0..(p.outer * p.num - 1) |-> BlockPtr(p, k % p.num, k \div p.num)]
LocalDescs(q, outer, inner) ==
  [k \in 0..(q.num * outer - 1) |-> BlockPtr(q, k \div outer, 0) + (k % outer) * inner]
RdmaRows(p, q, remote, local, xs) ==
  {LET b == BlockIndex(q, BlockPtr(q, xs[r[1]][2], 0))
   IN  Row(remote[r[2] * p.num + xs[r[1]][1]], local[b * p.outer + r[2]]) : r \in Rows(xs, p.outer)}

\* The reference: row (o, chunk) of a row-major tensor [outer][num][inner]
\* belongs to row (block, o) of the row-major CPU tensor [block][outer][inner].
WantedRows(p, q, xs) ==
  {Row(p.base + p.inner * (r[2] * p.num + xs[r[1]][1]),
       q.base + p.inner * (xs[r[1]][2] * p.outer + r[2])) : r \in Rows(xs, p.outer)}
=============================================================================
