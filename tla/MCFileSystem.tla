---------------------------- MODULE MCFileSystem ----------------------------
(* Small instances of FileSystemInvariants for TLC. *)
EXTENDS FileSystemInvariants, TLC

CONSTANTS root, a, b, long   \* the names, as model values

\* Two interchangeable names, with and without "/".
TwoNames == {a, b}
TwoNamesAndRoot == {root, a, b}
NameSymmetry == Permutations({a, b})

\* A name with no room for its terminator beside a short one.
LongNames == {root, a, long}

NameLengths == [n \in Names \cup {root} |-> IF n = long THEN 3 ELSE 1]
NameComponents == [n \in Names \cup {root} |-> IF n = root THEN <<>> ELSE <<n>>]

\* TLC tells states apart by what can still matter: a slot that is free and on
\* no walk up from an entry in use or from current_dir is overwritten before it
\* is read again, and so is a byte outside the data of every entry in use.
Referenced(s) ==
  LET step(S) == S \cup {s.files[i].parent_id : i \in S}
      reach[k \in 0 .. MAX_FILES] ==
        IF k = 0 THEN Live(s) \cup {s.current_dir} ELSE step(reach[k - 1])
  IN reach[MAX_FILES]
StoredBytes(s) ==
  UNION {s.files[i].data_offset .. s.files[i].data_offset + s.files[i].size - 1 :
           i \in Live(s)}
Relevant ==
  LET referenced == Referenced(fs)
      stored == StoredBytes(fs)
  IN [fs EXCEPT !.files = [i \in FileIds |-> IF i \in referenced THEN @[i] ELSE EmptyEntry],
                !.data_storage = [k \in DOMAIN @ |-> IF k \in stored THEN @[k] ELSE Zero]]

TwoBytes == {0, 1}
NoData == {<<>>}
ShortContents == {<<1>>, <<0, 0, 0>>}
ClippedContents == {<<1, 0>>}
=============================================================================
