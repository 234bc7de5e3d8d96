------------------------------- MODULE Labels -------------------------------
(***************************************************************************)
(* The names of cached data (kv_pool.h): a full label is                   *)
(* label:chunk_id:tensor_key, its group key label:chunk_id, and its file   *)
(* label/<chunk_id in pieces of two characters>/tensor_key.bin.  A string  *)
(* is a sequence of characters; Invalid stands for the abort.              *)
(***************************************************************************)
EXTENDS Integers, Sequences, FiniteSets

LabelSep == ":"
Invalid == <<>>

SeparatorsOf(s) == {i \in DOMAIN s : s[i] = LabelSep}
Before(s, i) == SubSeq(s, 1, i - 1)
After(s, i) == SubSeq(s, i + 1, Len(s))

ValidLabelComponent(c) ==
  /\ c \notin {<<>>, <<".">>, <<".", ".">>}
  /\ \A i \in DOMAIN c : c[i] \notin {":", "/", "\\"}

\* <<label, chunk_id>>.
ParseGroupKey(key) ==
  LET seps == SeparatorsOf(key)
      at == CHOOSE i \in seps : TRUE
  IN  IF Cardinality(seps) = 1 /\ ValidLabelComponent(Before(key, at))
                               /\ ValidLabelComponent(After(key, at))
      THEN <<Before(key, at), After(key, at)>> ELSE Invalid

\* <<group key, tensor_key>>: the last separator divides them.
ParseFullLabel(full) ==
  LET seps == SeparatorsOf(full)
      last == CHOOSE i \in seps : \A j \in seps : j <= i
  IN  IF Cardinality(seps) > 1 /\ ParseGroupKey(Before(full, last)) # Invalid
                               /\ ValidLabelComponent(After(full, last))
      THEN <<Before(full, last), After(full, last)>> ELSE Invalid

MakeGroupKey(label, chunkId) ==
  IF ValidLabelComponent(label) /\ ValidLabelComponent(chunkId)
  THEN label \o <<LabelSep>> \o chunkId ELSE Invalid

MakeFullLabel(groupKey, tensorKey) ==
  IF ParseGroupKey(groupKey) # Invalid /\ ValidLabelComponent(tensorKey)
  THEN groupKey \o <<LabelSep>> \o tensorKey ELSE Invalid

MakeChunkLabel(label, tensorKey, chunkId) ==
  MakeFullLabel(MakeGroupKey(label, chunkId), tensorKey)

\* s in pieces of two characters; the last one may be shorter.
Pieces(s) ==
  [i \in 1..((Len(s) + 1) \div 2) |->
     SubSeq(s, 2 * i - 1, IF 2 * i > Len(s) THEN Len(s) ELSE 2 * i)]

GetPathFromLabel(full) ==
  LET parsed == ParseFullLabel(full)
      key == ParseGroupKey(parsed[1])
  IN  <<key[1]>> \o Pieces(key[2]) \o <<parsed[2]>>

\* The file of Storage: the path below persist_dir/chunks, with its suffix.
FilePath(full) ==
  LET path == GetPathFromLabel(full)
  IN  [path EXCEPT ![Len(path)] = @ \o <<".", "b", "i", "n">>]
=============================================================================
