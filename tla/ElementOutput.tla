---------------------------- MODULE ElementOutput ----------------------------
(***************************************************************************)
(* How vsmkv writes any byte range of an encoded EBML element into a       *)
(* buffer: element::output and its overrides in integer, floating, string  *)
(* and block, with vint::output at the bottom.  A range is given by size   *)
(* and offset; each level takes its part and passes the rest on.           *)
(*                                                                         *)
(* The program that uses them is a FUSE thread that is asked for whole     *)
(* pages of a file in which the element lies anywhere: clusters begin at   *)
(* any position relative to a page.                                        *)
(*                                                                         *)
(* A byte is named after the element and the part of its encoding that it  *)
(* belongs to; what counts is where it ends up.  An element's name says    *)
(* what it is and which of its kind.  Sizes are size_t and wrap around.    *)
(***************************************************************************)
EXTENDS Integers, Sequences, Sums

CONSTANTS
  Page,      \* bytes per page: reads begin and end at multiples of it
  MaxPages,  \* bound: pages per read
  VintLimits,\* the least values too large for vints of 1 .. 8 bytes, 2^7 to
             \* 2^56; bound to less so that lengths of several bytes occur
  SizeMax,   \* 2^64, the modulus of size_t; bound to less
  Files      \* elements, with all below them, and where in a page they may begin:
             \* a set of [tree : .., starts : SUBSET (0 .. Page - 1)]

VARIABLES
  tree,      \* the element that is read, with all below it
  start,     \* where in its first page it begins
  read,      \* the range last asked for: its size and offset
  buffer,    \* what was written there, by position
  written    \* what output returned

vars == <<tree, start, read, buffer, written>>

Wrap(n) == n % SizeMax
least(a, b) == IF a < b THEN a ELSE b

-----------------------------------------------------------------------------
(* The elements.  A tree is a sequence of them, in which those with children *)
(* name them by number and come after them; its root is the last one.         *)

VintSize(v) == CHOOSE n \in 1 .. 8 : v < VintLimits[n] /\ (n = 1 \/ v >= VintLimits[n - 1])

\* Bytes of a plane and of a frame.
PlaneSize(p)  == p.row * p.height
FrameSize(ps) == total([i \in DOMAIN ps |-> PlaneSize(ps[i])])

\* The value of an element's length, and its getSize.
length(e)  == IF e.kind = "block" THEN 4 + FrameSize(e.planes) ELSE e.n
getSize(e) == e.id + VintSize(length(e)) + length(e)

Root(t) == t[Len(t)]

\* What f has for the children of e.
below(f, e) ==
  IF e.kind = "master" THEN [i \in DOMAIN e.children |-> f[e.children[i]]] ELSE <<>>

sizesBelow(t, e) == [i \in DOMAIN e.children |-> getSize(t[e.children[i]])]

\* The tree of a cluster, as cache_cluster puts it together.
Timecode == [name |-> <<"Timecode", 1>>, kind |-> "integer", id |-> 1, n |-> 4]

SimpleBlock(i, ps) ==
  [name |-> <<"Block", i>>, kind |-> "block", id |-> 1, planes |-> ps]

Cluster(blocks, ps) ==
  LET parts == <<Timecode>> \o [i \in 1 .. blocks |-> SimpleBlock(i, ps)]
  IN Append(parts,
            [name |-> <<"Cluster", 1>>, kind |-> "master", id |-> 4, blocks |-> blocks, planes |-> ps,
             n |-> total([i \in DOMAIN parts |-> getSize(parts[i])]),
             children |-> [i \in DOMAIN parts |-> i]])

IsCluster(e) == e.name = <<"Cluster", 1>>

\* The size the constructor of clusterlist computes for such a cluster, before
\* any of its elements exist.
ComputedSize(blocks, ps) ==
  LET data       == 4 + FrameSize(ps)
      block_size == 1 + VintSize(data) + data
      content    == 6 + block_size * blocks
  IN 4 + VintSize(content) + content

-----------------------------------------------------------------------------
(* What the program is built with.  A page is longer than any header part;   *)
(* what can be encoded fits into a vint; and what is only right from its      *)
(* beginning on lies in one page.                                             *)

ASSUME NumbersAssumption ==
  /\ Page \in Nat /\ Page >= 8
  /\ MaxPages \in Nat \ {0}
  /\ SizeMax \in Nat /\ MaxPages * Page < SizeMax
  /\ VintLimits \in [1 .. 8 -> Nat]
  /\ VintLimits[1] > Timecode.n
  /\ \A n \in 2 .. 8 : VintLimits[n - 1] < VintLimits[n]

IsSequence(s) == Len(s) \in Nat /\ DOMAIN s = 1 .. Len(s)

IsFrame(ps) ==
  /\ IsSequence(ps)
  /\ \A p \in DOMAIN ps : /\ ps[p].row \in Nat \ {0} /\ ps[p].height \in Nat
                          /\ ps[p].stride \in Nat /\ ps[p].stride >= ps[p].row

\* An element without children.
IsLeaf(e) ==
  \/ e.kind = "integer"  /\ e.n \in 1 .. 8
  \/ e.kind = "floating" /\ e.n = 4
  \/ e.kind = "string"   /\ e.n \in Nat
  \/ e.kind = "block"    /\ IsFrame(e.planes)

\* Element k of a tree, if it has children: addChild has added up their sizes.
IsMaster(t, k) ==
  LET e == t[k]
  IN /\ e.kind = "master"
     /\ IsSequence(e.children) /\ \A i \in DOMAIN e.children : e.children[i] \in 1 .. k - 1
     /\ e.n = total(sizesBelow(t, e))

\* The root has children, and all that is encoded fits.
IsTree(t) ==
  /\ IsSequence(t) /\ t # <<>> /\ IsMaster(t, Len(t))
  /\ \A k \in DOMAIN t :
       /\ IsLeaf(t[k]) \/ IsMaster(t, k)
       /\ t[k].id \in 1 .. 4
       /\ length(t[k]) < VintLimits[8] /\ getSize(t[k]) < SizeMax

\* Elements that are only written right from their beginning on: strings, floats,
\* and those of which the end may be shorter than the ID when this was cut, such as
\* cues without cue points.
NeedsStart(e)   == e.kind \in {"string", "floating"} \/ e.id - 2 > length(e)
OnlyFromStart(t) == \E k \in DOMAIN t : NeedsStart(t[k])

ASSUME FilesAssumption ==
  \A f \in Files :
    /\ IsTree(f.tree)
    /\ f.starts \subseteq 0 .. Page - 1
    /\ LET root == Root(f.tree)
       IN IsCluster(root) =>
            /\ f.tree = Cluster(root.blocks, root.planes)
            /\ root.blocks \in Nat /\ IsFrame(root.planes)
            /\ 4 + FrameSize(root.planes) < VintLimits[8]
    /\ OnlyFromStart(f.tree) => \A s \in f.starts : s + getSize(Root(f.tree)) <= Page

-----------------------------------------------------------------------------
(* Output.  A cursor carries the arguments of output down the tree and what  *)
(* was written back: `at` is the position of the buffer pointer.             *)

Cursor(buf, at, size, offset) ==
  [buffer |-> buf, at |-> at, size |-> size, offset |-> offset]

\* buffer[i] = b[i] for some i.
Put(cur, b) ==
  Cursor([p \in DOMAIN cur.buffer \cup {cur.at + i : i \in DOMAIN b} |->
            IF p - cur.at \in DOMAIN b THEN b[p - cur.at] ELSE cur.buffer[p]],
         cur.at, cur.size, cur.offset)

\* The buffer pointer moves on, and there is less to write.
Advance(cur, n) == Cursor(cur.buffer, cur.at + n, Wrap(cur.size - n), cur.offset)

\* What is wanted begins n bytes further on.
Skip(cur, n) == Cursor(cur.buffer, cur.at, cur.size, Wrap(cur.offset - n))

\* What another cursor wrote from its position 0 on, from this one's on.
Paste(cur, r) == Advance(Put(cur, r.buffer), r.at)

\* What is wanted begins here.
Begin(cur) == Cursor(cur.buffer, cur.at, cur.size, 0)

\* vint::output: from the last byte down, with the first one put at the front.
vint(name, part, n, size, offset) ==
  LET end == least(n, size + offset)
  IN IF size = 0 \/ offset >= n
     THEN [bytes |-> <<>>, written |-> 0]
     ELSE [bytes   |-> [i \in {0} \cup (offset + 1 .. end - 1) |->
                          <<name, part, IF i = 0 THEN offset + 1 ELSE i + 1>>],
           written |-> end - offset]

\* Mutant: the size is not what remains.
outputVintInFull(e, part, n, cur) ==
  IF cur.offset < n /\ cur.size > 0
  THEN LET v == vint(e.name, part, n, n, cur.offset)
       IN Begin(Advance(Put(cur, v.bytes), n))
  ELSE Skip(cur, n)

\* outputID and outputLength.
outputVint(e, part, n, cur) ==
  IF cur.offset < n /\ cur.size > 0
  THEN LET v == vint(e.name, part, n, least(n, Wrap(cur.size - cur.offset)), cur.offset)
       IN Begin(Advance(Put(cur, v.bytes), v.written))
  ELSE Skip(cur, n)

outputHead(e, cur) ==
  outputVint(e, "length", VintSize(length(e)), outputVint(e, "id", e.id, cur))

\* Mutant: the value is written from its first byte on.
outputIntegerFront(e, cur) ==
  LET l == least(cur.size, e.n)
  IN IF cur.offset < e.n /\ cur.size > 0
     THEN Advance(Put(cur, [i \in 0 .. l - 1 |-> <<e.name, "value", i + 1, e.n>>]), l)
     ELSE cur

\* integer::output: the low bytes of the value, as many as there is room for.
outputInteger(e, cur) ==
  LET l == least(cur.size, e.n)
  IN IF cur.offset < e.n /\ cur.size > 0
     THEN Advance(Put(cur, [i \in 0 .. l - 1 |-> <<e.name, "value", e.n - l + i + 1, e.n>>]), l)
     ELSE cur

\* floating::output: the first bytes of the value.
outputFloating(e, cur) ==
  LET l == least(cur.size, 4)
  IN IF cur.offset < 4 /\ cur.size > 0
     THEN Advance(Put(cur, [i \in 0 .. l - 1 |-> <<e.name, "float", i + 1>>]), l)
     ELSE cur

\* string::output: buffer and string are indexed alike.
outputString(e, cur) ==
  LET m == least(cur.offset + cur.size, e.n)
  IN IF cur.offset < e.n /\ cur.size > 0
     THEN Advance(Put(cur, [i \in cur.offset .. m - 1 |-> <<e.name, "string", i + 1>>]), m)
     ELSE cur

\* The four header bytes of a block.
outputBlockHeader(e, cur) ==
  LET m == least(4 - cur.offset, cur.size)
  IN IF cur.offset < 4
     THEN Begin(Advance(Put(cur, [i \in 0 .. m - 1 |-> <<e.name, "header", i + 1>>]), m))
     ELSE Skip(cur, 4)

\* What VapourSynth keeps behind the read pointer of plane p at some address.
Memory(e, p, address) ==
  LET plane  == e.planes[p]
      column == address % plane.stride
  IN IF column < plane.row
     THEN <<e.name, "frame", p, address \div plane.stride, column>>
     ELSE <<e.name, "padding">>

\* Mutant: memcpy of a whole row.
CopyWholeRow(e, p, c, y) ==
  LET plane == e.planes[p]
      n     == plane.row - c.row_offset
  IN IF c.cur.size > 0
     THEN [cur |-> Begin(Advance(Put(c.cur, [i \in 0 .. n - 1 |-> Memory(e, p, c.ptr + i)]), n)),
           ptr |-> c.ptr + least(plane.stride, n), row_offset |-> 0]
     ELSE c

\* One round of the loop over rows.
CopyRow(e, p, c, y) ==
  LET plane == e.planes[p]
      n     == least(plane.row - c.row_offset, c.cur.size)
  IN IF c.cur.size > 0
     THEN [cur |-> Begin(Advance(Put(c.cur, [i \in 0 .. n - 1 |-> Memory(e, p, c.ptr + i)]), n)),
           ptr |-> c.ptr + least(plane.stride, n), row_offset |-> 0]
     ELSE c

\* The rows from y = start_row on.
CopyRows(e, p, first, start_row) ==
  LET after[y \in start_row .. e.planes[p].height] ==
        IF y = start_row THEN first ELSE CopyRow(e, p, after[y - 1], y - 1)
  IN after[e.planes[p].height]

\* One plane.
CopyPlane(e, cur, p) ==
  LET plane      == e.planes[p]
      row_offset == cur.offset % plane.row
      start_row  == cur.offset \div plane.row
      first      == [cur |-> cur, ptr |-> plane.stride * start_row + row_offset,
                     row_offset |-> row_offset]
  IN IF cur.size = 0 THEN cur
     ELSE IF cur.offset < PlaneSize(plane)
     THEN CopyRows(e, p, first, start_row).cur
     ELSE Skip(cur, PlaneSize(plane))

outputFrame(e, cur) ==
  LET after[p \in 0 .. Len(e.planes)] ==
        IF p = 0 THEN cur ELSE CopyPlane(e, after[p - 1], p)
  IN after[Len(e.planes)]

outputLeaf(e, cur) ==
  LET body == outputHead(e, cur)
  IN IF cur.size = 0 THEN cur
     ELSE CASE e.kind = "integer"  -> outputInteger(e, body)
            [] e.kind = "floating" -> outputFloating(e, body)
            [] e.kind = "string"   -> outputString(e, body)
            [] e.kind = "block"    -> outputFrame(e, outputBlockHeader(e, body))

\* Mutant: the offset into the first child is used for the others, too.
outputChildKeepingOffset(cur, size, kid) ==
  IF cur.offset < size /\ cur.size > 0
  THEN Paste(cur, kid[least(cur.size, size - cur.offset)][cur.offset])
  ELSE Skip(cur, size)

\* One round of the loop over children: one of a given size, by its output.
outputChild(cur, size, kid) ==
  IF cur.offset < size /\ cur.size > 0
  THEN Begin(Paste(cur, kid[least(cur.size, size - cur.offset)][cur.offset]))
  ELSE Skip(cur, size)

outputChildren(sizes, kids, cur) ==
  LET after[i \in 0 .. Len(sizes)] ==
        IF i = 0 THEN cur ELSE outputChild(after[i - 1], sizes[i], kids[i])
  IN after[Len(sizes)]

\* element::output, with what its children have for output.
outputMaster(e, sizes, kids, cur) ==
  LET body == outputHead(e, cur)
  IN IF cur.size = 0 THEN cur
     ELSE IF body.offset < length(e) /\ body.size > 0
     THEN outputChildren(sizes, kids, body)
     ELSE body

NoBytes == [i \in {} |-> i]
Sizes   == 0 .. SizeMax - 1

Fresh(size, offset) == Cursor(NoBytes, 0, size, offset)

\* output of an element: what it makes of any size and offset.
output(t, k, kids) ==
  [size \in Sizes |-> [offset \in Sizes |->
     IF t[k].kind = "master"
     THEN outputMaster(t[k], sizesBelow(t, t[k]), kids, Fresh(size, offset))
     ELSE outputLeaf(t[k], Fresh(size, offset))]]

\* Of all elements of a tree.
outputs(t) ==
  LET out[k \in DOMAIN t] == output(t, k, below(out, t[k]))
  IN out

-----------------------------------------------------------------------------
Init ==
  /\ \E f \in Files : tree = f.tree /\ start \in f.starts
  /\ read = [size |-> 0, offset |-> 0]
  /\ buffer = NoBytes
  /\ written = 0

\* The kernel asks for some pages; the nodes above pass the range on, without
\* what lies before the element or behind the end of the file, which may be
\* the end of the element.
Read ==
  /\ LET end == start + getSize(Root(tree))
     IN \E first \in 0 .. (end - 1) \div Page, n \in 1 .. MaxPages :
          LET from == IF first = 0 THEN start ELSE first * Page
              to   == (first + n) * Page
          IN \E stop \in {to, least(to, end)} :
               read' = [size |-> stop - from, offset |-> from - start]
  /\ LET r == outputs(tree)[Len(tree)][read'.size][read'.offset]
     IN buffer' = r.buffer /\ written' = r.at
  /\ UNCHANGED <<tree, start>>

Next == Read

Spec == Init /\ [][Next]_vars

-----------------------------------------------------------------------------
(* What output promises: a slice of the whole encoding. *)

numbered(e, part, n) == [i \in 1 .. n |-> <<e.name, part, i>>]

PlaneBytes(e, p) ==
  LET row == e.planes[p].row
  IN [i \in 1 .. PlaneSize(e.planes[p]) |->
        <<e.name, "frame", p, (i - 1) \div row, (i - 1) % row>>]

Body(e) ==
  CASE e.kind = "integer"  -> [i \in 1 .. e.n |-> <<e.name, "value", i, e.n>>]
    [] e.kind = "floating" -> numbered(e, "float", e.n)
    [] e.kind = "string"   -> numbered(e, "string", e.n)
    [] e.kind = "block"    -> numbered(e, "header", 4) \o
                              joined([p \in DOMAIN e.planes |-> PlaneBytes(e, p)])

HeadBytes(e) == numbered(e, "id", e.id) \o numbered(e, "length", VintSize(length(e)))

\* An element is encoded to its head and its content, which may be its children.
encoded(e, kids) == HeadBytes(e) \o (IF e.kind = "master" THEN joined(kids) ELSE Body(e))

\* All elements of a tree.
encodings(t) ==
  LET enc[k \in DOMAIN t] == encoded(t[k], below(enc, t[k]))
  IN enc

Encoding(t) == encodings(t)[Len(t)]

\* Byte i of the buffer is the byte of the file that belongs there.
Right(i) == buffer[i] = Encoding(tree)[read.offset + i + 1]

Available == getSize(Root(tree)) - read.offset

\* The part of the encoding a byte lies in, and its number there.
PartOf(k) == Encoding(tree)[k][2]

\* The range asked for is one of the element, and the buffer is never written to
\* outside of it.
TypeOK ==
  /\ read.size \in 0 .. MaxPages * Page
  /\ read.offset \in 0 .. getSize(Root(tree))
  /\ written \in 0 .. read.size
  /\ DOMAIN buffer \subseteq 0 .. read.size - 1

\* The count that output returns is what was asked for, up to the end of the
\* element, which is where clusterlist computed it to be: caching_cluster and
\* the assertion at clusterlist.cpp:93 rely on it.
CountRight ==
  /\ LET root == Root(tree)
     IN IsCluster(root) => getSize(root) = ComputedSize(root.blocks, root.planes)
  /\ written = least(read.size, Available)

\* Pixels are at their place, however the range cuts the bytes before them.
FrameBytesRight ==
  \A i \in 0 .. written - 1 :
    PartOf(read.offset + i + 1) = "frame" => i \in DOMAIN buffer /\ Right(i)

\* A range that begins inside an ID, a length, a block header or a float, or
\* ends inside an integer.
BadBegin(byte) == byte[2] \in {"id", "length", "header"} /\ byte[3] > 1
BadEnd(byte)   == byte[2] = "value" /\ byte[3] < byte[4]

BadCut ==
  \/ BadBegin(Encoding(tree)[read.offset + 1])
  \/ BadEnd(Encoding(tree)[read.offset + written])

\* Any other range is answered with exactly that slice of the encoding.
CleanCutsRight ==
  read.size > 0 /\ ~BadCut =>
    \A i \in 0 .. written - 1 : i \in DOMAIN buffer /\ Right(i)

\* Every range is.
SliceRight == \A i \in 0 .. written - 1 : i \in DOMAIN buffer /\ Right(i)
=============================================================================
