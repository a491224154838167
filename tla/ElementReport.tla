---------------------------- MODULE ElementReport ----------------------------
(***************************************************************************)
(* report, the debugging aid of the elements: it prints the path from an   *)
(* element down to the byte at some offset, one line per level.  A line is *)
(* the name of an element or the part of it that the byte belongs to; a    *)
(* block says where in its content the byte is, too.                       *)
(***************************************************************************)
EXTENDS ElementOutput

\* vint::report prints the number; the element says which one it is.
reportVint(part, size, offset) == IF offset < size THEN <<part>> ELSE <<>>

\* The line for the ID or the length, if the byte is there.
reportHead(e, offset) ==
  reportVint("id", e.id, offset) \o
  (IF offset < e.id THEN <<>> ELSE reportVint("length", VintSize(length(e)), offset - e.id))

HeadSize(e) == e.id + VintSize(length(e))

\* The lines of an element whose content takes one line.
reportLines(e, offset, content) ==
  IF offset >= getSize(e) THEN <<>>
  ELSE IF offset < HeadSize(e) THEN <<e.name>> \o reportHead(e, offset)
  ELSE <<e.name, content>>

reportInteger(e, offset)  == reportLines(e, offset, "value")
reportFloating(e, offset) == reportLines(e, offset, "value")
reportString(e, offset)   == reportLines(e, offset, "value")

\* Mutant: the offset still counts the length, as in the other elements.
reportBlockFromLength(e, offset) ==
  LET at == offset - e.id
  IN reportLines(e, offset, <<IF at < 4 THEN "header" ELSE "data", at>>)

\* A block goes on to say where in its content the byte is.
reportBlock(e, offset) ==
  LET at == offset - HeadSize(e)
  IN reportLines(e, offset, <<IF at < 4 THEN "header" ELSE "data", at>>)

reportLeaf(e, offset) ==
  CASE e.kind = "integer"  -> reportInteger(e, offset)
    [] e.kind = "floating" -> reportFloating(e, offset)
    [] e.kind = "string"   -> reportString(e, offset)
    [] e.kind = "block"    -> reportBlock(e, offset)

\* node::report: the first child that is longer than what is left of the offset.
\* The size it is compared with is that of the element, head included, which is
\* larger than need be.
reportChildren(e, sizes, kids, offset) ==
  LET before(i) == sums(sizes)[i - 1]
      found     == {i \in DOMAIN sizes : offset < before(i) + sizes[i]}
      child     == CHOOSE i \in found : \A k \in found : i <= k
  IN IF offset < getSize(e) /\ found # {}
     THEN kids[child][offset - before(child)]
     ELSE <<>>

\* element::report, with what its children report.
reportMaster(e, sizes, kids, offset) ==
  IF offset >= getSize(e) THEN <<>>
  ELSE IF offset < HeadSize(e) THEN <<e.name>> \o reportHead(e, offset)
  ELSE <<e.name>> \o reportChildren(e, sizes, kids, offset - HeadSize(e))

\* report of an element, for any offset.
report(t, k, kids) ==
  [offset \in Sizes |->
     IF t[k].kind = "master" THEN reportMaster(t[k], sizesBelow(t, t[k]), kids, offset)
     ELSE reportLeaf(t[k], offset)]

\* Of all elements of a tree.
reports(t) ==
  LET rep[k \in DOMAIN t] == report(t, k, below(rep, t[k]))
  IN rep

-----------------------------------------------------------------------------
\* What the last line says of a byte that is number n of a part.
Shown(part, n) ==
  CASE part \in {"id", "length"}              -> part
    [] part \in {"value", "float", "string"}  -> "value"
    [] part = "header"                        -> <<"header", n - 1>>

\* What report prints of byte number offset of element k.
LinesRight(t, k, offset) ==
  LET lines == reports(t)[k][offset]
      byte  == encodings(t)[k][offset + 1]
      last  == lines[Len(lines)]
  IN /\ lines[1] = t[k].name
     /\ \A l \in 1 .. Len(lines) - 2 : \E parent \in DOMAIN t :
          /\ t[parent].kind = "master" /\ t[parent].name = lines[l]
          /\ \E i \in DOMAIN t[parent].children : t[t[parent].children[i]].name = lines[l + 1]
     /\ lines[Len(lines) - 1] = byte[1]
     /\ IF byte[2] = "frame"
        THEN /\ last[1] = "data"
             /\ \E block \in DOMAIN t :
                  /\ t[block].kind = "block" /\ t[block].name = byte[1]
                  /\ Body(t[block])[last[2] + 1] = byte
        ELSE last = Shown(byte[2], byte[3])

\* report "prints the tree that leads to the specified offset" (node.h:54): from
\* the element it starts with, always on to a child of the one before, down to the
\* one in which output has the byte at that offset, and the right part of that;
\* past the end, nothing (element.cpp:68-91, block.cpp:128-158,
\* integer.cpp:80-103).
ReportRight ==
  read.size = 0 =>
    /\ reports(tree)[Len(tree)][getSize(Root(tree))] = <<>>
    /\ \A offset \in 0 .. getSize(Root(tree)) - 1 : LinesRight(tree, Len(tree), offset)
=============================================================================
