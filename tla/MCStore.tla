------------------------------ MODULE MCStore ------------------------------
(* Small instances of Store, and the names of Labels over bounded inputs. *)
EXTENDS Store

\* One group key with a chunk id of two pieces, and tensor keys.
OneGroup == {MakeGroupKey(<<"m">>, <<"a", "b", "c">>)}
TwoLayers == <<<<"l", "0">>, <<"l", "1">>>>
OneLayer == <<<<"l", "0">>>>

\* Operators who wait for everything their calls race with, who wait for nothing,
\* and who only evict with care.
Waiting == {"persist", "evict"}
AnyOperator == {Waiting, {}}
WaitingOperator == {Waiting}
PersistingOperator == {{"evict"}}

Strings(chars, n) == UNION {[1..k -> chars] : k \in 0..n}

\* Labels and tensor keys may hold dots; chunk ids are hexadecimal hashes.
Names == {s \in Strings({"a", "."}, 2) : ValidLabelComponent(s)}
ChunkIds == {s \in Strings({"a", "b"}, 4) : ValidLabelComponent(s)}
Entries == Names \X Names \X ChunkIds
LabelOf(e) == MakeChunkLabel(e[1], e[2], e[3])

\* A string is taken for a full label exactly when it was made from three valid
\* components, and parsing gives back the components it was made from.
ASSUME ParsingInvertsMaking ==
  /\ \A e \in Entries : /\ ParseFullLabel(LabelOf(e)) = <<MakeGroupKey(e[1], e[3]), e[2]>>
                        /\ ParseGroupKey(MakeGroupKey(e[1], e[3])) = <<e[1], e[3]>>
  /\ LET chars == {"a", ".", ":"}
         parts == {s \in Strings(chars, 3) : ValidLabelComponent(s)}
     IN  {s \in Strings(chars, 5) : ParseFullLabel(s) # Invalid}
           = {MakeChunkLabel(p[1], p[2], p[3]) : p \in
                {q \in parts \X parts \X parts : Len(q[1]) + Len(q[2]) + Len(q[3]) <= 3}}

\* Different entries have different files, and no file stands where another
\* entry's path needs a directory, also for chunk ids of different lengths.
ASSUME FilesApart ==
  LET files == {FilePath(LabelOf(e)) : e \in Entries}
  IN  /\ Cardinality(files) = Cardinality(Entries)
      /\ \A f \in files : \A n \in 1..(Len(f) - 1) : SubSeq(f, 1, n) \notin files
============================================================================
