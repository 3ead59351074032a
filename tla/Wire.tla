-------------------------------- MODULE Wire --------------------------------
(***************************************************************************)
(* The pure parsers of the replies: cq_codec.c, cq_track.c, cq_reflist.c,  *)
(* cq_pls.c, and ParseHttpUrl of os9/casquinha.c.  A reply is a sequence   *)
(* of lines, a line its parts between TABs; a part is a tuple, <<>> the    *)
(* empty one, and the key of row n of a list the tuple <<prefix, n>>.      *)
(***************************************************************************)
EXTENDS Integers, Sequences, FiniteSets

CONSTANTS HostCap, PathCap

(* cq_fields_parse: a key is what is before the first TAB, when there is    *)
(* one and the key is not empty; the last line of a key wins (fields_put).  *)
(* Mutant: a line without a TAB is a field with no value. *)
IsField_NoTab(line) == Len(line) >= 1 /\ line[1] # <<>>

IsField(line) == Len(line) >= 2 /\ line[1] # <<>>

cq_fields_parse(lines) ==
  LET fields == {i \in DOMAIN lines : IsField(lines[i])}
      Of(key) == {i \in fields : lines[i][1] = key} IN
  [key \in {lines[i][1] : i \in fields} |->
     Tail(lines[CHOOSE i \in Of(key) : \A j \in Of(key) : j <= i])]

(* cq_track_list_from_fields, cq_ref_list_from_fields: the rows of a list   *)
(* up to its first gap.                                                     *)
Rows(f, prefix) ==
  LET Has(n) == <<prefix, n>> \in DOMAIN f
      count == CHOOSE n \in 0 .. Cardinality(DOMAIN f) : ~Has(n) /\ \A i \in 0 .. n - 1 : Has(i) IN
  [n \in 1 .. count |-> f[<<prefix, n - 1>>]]

(* cq_pls_first_url: the File entry of the lowest number, a number of 0     *)
(* read as 1, else the first bare url.                                      *)
NoUrl == [http |-> FALSE, host |-> 0, port |-> -1, path |-> 0]

PlsIndex(line) == IF line.n = 0 THEN 1 ELSE line.n

cq_pls_first_url(lines) ==
  LET Of(kind) == {i \in DOMAIN lines : lines[i].kind = kind /\ lines[i].url # NoUrl}
      Before(i, j) == \/ PlsIndex(lines[i]) < PlsIndex(lines[j])
                      \/ PlsIndex(lines[i]) = PlsIndex(lines[j]) /\ i <= j
      First(is, Leq(_, _)) == lines[CHOOSE i \in is : \A j \in is : Leq(i, j)].url IN
  IF Of("file") # {} THEN First(Of("file"), Before)
  ELSE IF Of("bare") # {} THEN First(Of("bare"), LAMBDA i, j : i <= j)
  ELSE NoUrl

(* Lengths of the host and of the path, the slash included; -1: no port.    *)
ParseHttpUrl(url) ==
  /\ url.http /\ url.path \in 1 .. PathCap - 1 /\ url.host \in 1 .. HostCap - 1
  /\ url.port \in {-1} \cup (1 .. 65535)
=============================================================================
