---------------------------- MODULE FrotzObjects ----------------------------
(***************************************************************************)
(* The object table (object.c): entries of 9 bytes up to version 3 and of  *)
(* 14 after it, that hold attributes, the numbers of parent, sibling and   *)
(* child, and the address of a list of properties in descending order.     *)
(* All of it lies in the memory of the story.                              *)
(***************************************************************************)
EXTENDS Integers, Sequences, FiniteSets, SequencesExt

CONSTANTS NumObjects,
          Layout,       \* for each object its properties, <<number, length>>
          StoryId,      \* "SHERLOCK" has a rule of its own
          AttrCalls,    \* <<object, attribute>> that are set and cleared
          PropCalls     \* <<object, property, value>> that are put
ASSUME ObjectsAssumption == /\ NumObjects \in 1 .. 255 /\ Len(Layout) = NumObjects
                            /\ \A c \in PropCalls : c[3] \in 0 .. 65535
                            /\ \A c \in PropCalls, o \in 1 .. NumObjects : \A p \in Range(Layout[o]) : c[1] = o /\ c[2] = p[1] => p[2] <= 2

VARIABLES version, mem, fatal
objVars == <<version, mem, fatal>>

Objects == 1 .. NumObjects
objects == 1                \* the address of the table: h_objects
V3 == version <= 3
O_PARENT == IF V3 THEN 4 ELSE 6
O_SIBLING == IF V3 THEN 5 ELSE 8
O_CHILD == IF V3 THEN 6 ELSE 10
O_PROPERTY_OFFSET == IF V3 THEN 7 ELSE 12
Mask == IF V3 THEN 31 ELSE 63
NumberAt(m, a) == m[a] % (Mask + 1)

LowWord(m, a) == 256 * m[a] + m[a + 1]
SetWord(m, a, v) == [m EXCEPT ![a] = v \div 256, ![a + 1] = v % 256]
\* An object number is a byte up to version 3 and a word after it.
LowId(m, a) == IF V3 THEN m[a] ELSE LowWord(m, a)
SetId(m, a, v) == IF V3 THEN [m EXCEPT ![a] = v % 256] ELSE SetWord(m, a, v)

IllegalObject(obj) == obj > (IF V3 THEN 255 ELSE 2000)
ObjectAddress(obj) == objects + (IF V3 THEN (obj - 1) * 9 + 62 ELSE (obj - 1) * 14 + 126)
ObjectName(m, obj) == LowWord(m, ObjectAddress(obj) + O_PROPERTY_OFFSET)
FirstProperty(m, obj) == ObjectName(m, obj) + 1 + 2 * m[ObjectName(m, obj)]
\* 64 bytes are written as none.
LongLength(size) == IF size % 64 = 0 THEN 64 ELSE size % 64
NextProperty(m, addr) ==
  LET value == CASE V3 -> m[addr] \div 32
                 [] ~V3 /\ m[addr] < 128 -> m[addr] \div 64
                 [] OTHER -> LongLength(m[addr + 1])
  IN addr + 1 + value + 1
\* The first property of the list that is not above the number.
RECURSIVE Reach(_, _, _)
Reach(m, addr, n) == IF NumberAt(m, addr) <= n THEN addr ELSE Reach(m, NextProperty(m, addr), n)
FindProperty(m, obj, n) == Reach(m, FirstProperty(m, obj), n)
Found(m, addr, n) == NumberAt(m, addr) = n
OneByte(size) == size < Mask + 1

\* What the story asks, and what it is told: 0 for object 0.
Asked(m, obj, field) == IF obj = 0 THEN 0 ELSE LowId(m, ObjectAddress(obj) + field)
GetParent(m, obj) == Asked(m, obj, O_PARENT)
GetSibling(m, obj) == Asked(m, obj, O_SIBLING)
GetChild(m, obj) == Asked(m, obj, O_CHILD)
Jin(m, obj, other) == GetParent(m, obj) = other
AttrByte(obj, n) == ObjectAddress(obj) + n \div 8
AttrBit(n) == 2 ^ (7 - (n % 8))
BitSet(byte, n) == (byte \div AttrBit(n)) % 2 = 1
TestAttr(m, obj, n) == obj # 0 /\ BitSet(m[AttrByte(obj, n)], n)
GetProp(m, obj, n) ==
  LET addr == FindProperty(m, obj, n)
  IN CASE obj = 0 -> 0
       [] obj # 0 /\ ~Found(m, addr, n) -> LowWord(m, objects + 2 * (n - 1))
       [] OTHER -> IF OneByte(m[addr]) THEN m[addr + 1] ELSE LowWord(m, addr + 1)
GetPropAddr(m, obj, n) ==
  LET addr == FindProperty(m, obj, n)
  IN CASE obj = 0 -> 0
       [] obj # 0 /\ ~Found(m, addr, n) -> 0
       [] OTHER -> IF ~V3 /\ m[addr] >= 128 THEN addr + 2 ELSE addr + 1
GetPropLen(m, addr) ==
  LET value == m[addr - 1]
  IN CASE addr = 0 -> 0
       [] addr # 0 /\ V3 -> value \div 32 + 1
       [] addr # 0 /\ ~V3 /\ value < 128 -> value \div 64 + 1
       [] OTHER -> LongLength(value)
GetNextProp(m, obj, n) ==
  LET this == FindProperty(m, obj, n)
      addr == IF n = 0 THEN FirstProperty(m, obj) ELSE NextProperty(m, this)
  IN IF obj = 0 THEN 0 ELSE NumberAt(m, addr)

\* runtime_error: the program ends for the errors that are fatal, and tells of
\* the others, those of object 0.
ERR_ILL_ATTR == 5
ERR_NO_PROP == 6
RuntimeError(errnum) == fatal' = errnum /\ UNCHANGED <<version, mem>>
Does(m) == mem' = m /\ UNCHANGED <<version, fatal>>

\* unlink_object: its entry is emptied first, then its place in the chain of
\* siblings is closed, which is looked for from the first child on.
RECURSIVE SiblingField(_, _, _)
SiblingField(m, younger, obj) ==
  LET field == ObjectAddress(younger) + O_SIBLING
  IN IF LowId(m, field) = obj THEN field ELSE SiblingField(m, LowId(m, field), obj)
UnlinkObjectHalf(m, obj) == \* the sibling of the object kept
  LET addr == ObjectAddress(obj)
      parent == LowId(m, addr + O_PARENT)
      older == LowId(m, addr + O_SIBLING)
      emptied == SetId(m, addr + O_PARENT, 0)
      first == ObjectAddress(parent) + O_CHILD
  IN CASE parent = 0 -> m
       [] parent # 0 /\ LowId(emptied, first) = obj -> SetId(emptied, first, older)
       [] OTHER -> SetId(emptied, SiblingField(emptied, LowId(emptied, first), obj), older)
UnlinkObject(m, obj) ==
  LET addr == ObjectAddress(obj)
      parent == LowId(m, addr + O_PARENT)
      older == LowId(m, addr + O_SIBLING)
      emptied == SetId(SetId(m, addr + O_PARENT, 0), addr + O_SIBLING, 0)
      first == ObjectAddress(parent) + O_CHILD
  IN CASE parent = 0 -> m
       [] parent # 0 /\ LowId(emptied, first) = obj -> SetId(emptied, first, older)
       [] OTHER -> SetId(emptied, SiblingField(emptied, LowId(emptied, first), obj), older)
InsertObjectAlone(m, obj1, obj2) == \* those that were there are let go
  LET unlinked == UnlinkObject(m, obj1)
  IN SetId(SetId(unlinked, ObjectAddress(obj1) + O_PARENT, obj2), ObjectAddress(obj2) + O_CHILD, obj1)
InsertObject(m, obj1, obj2) ==
  LET unlinked == UnlinkObject(m, obj1)
      child == LowId(unlinked, ObjectAddress(obj2) + O_CHILD)
  IN SetId(SetId(SetId(unlinked, ObjectAddress(obj1) + O_PARENT, obj2), ObjectAddress(obj2) + O_CHILD, obj1),
           ObjectAddress(obj1) + O_SIBLING, child)

\* A story does not put a thing into itself.
RECURSIVE IsWithin(_, _, _)
IsWithin(m, obj, other) == obj # 0 /\ (obj = other \/ IsWithin(m, GetParent(m, obj), other))
ZInsertObj == \E obj1, obj2 \in 0 .. NumObjects :
  /\ fatal = 0
  /\ IF obj1 = 0 \/ obj2 = 0 THEN UNCHANGED objVars ELSE ~IsWithin(mem, obj2, obj1) /\ Does(InsertObject(mem, obj1, obj2))
ZRemoveObj == \E obj \in 0 .. NumObjects :
  fatal = 0 /\ IF obj = 0 THEN UNCHANGED objVars ELSE Does(UnlinkObject(mem, obj))
IllegalAttr(n) == n > (IF V3 THEN 31 ELSE 47)
ChangeAttr(obj, n, set) ==
  CASE StoryId = "SHERLOCK" /\ n = 48 -> UNCHANGED objVars
    [] ~(StoryId = "SHERLOCK" /\ n = 48) /\ IllegalAttr(n) -> RuntimeError(ERR_ILL_ATTR)
    [] OTHER -> IF obj = 0 THEN UNCHANGED objVars
                ELSE Does([mem EXCEPT ![AttrByte(obj, n)] = IF BitSet(@, n) = set THEN @ ELSE @ + (IF set THEN AttrBit(n) ELSE -AttrBit(n))])
ZSetAttr == \E c \in AttrCalls : fatal = 0 /\ ChangeAttr(c[1], c[2], TRUE)
ZClearAttr == \E c \in AttrCalls : fatal = 0 /\ ChangeAttr(c[1], c[2], FALSE)
PutPropWide(obj, n, v) == \* always a word
  LET addr == FindProperty(mem, obj, n)
  IN CASE obj = 0 -> UNCHANGED objVars
       [] obj # 0 /\ ~Found(mem, addr, n) -> RuntimeError(ERR_NO_PROP)
       [] OTHER -> Does(SetWord(mem, addr + 1, v))
PutProp(obj, n, v) ==
  LET addr == FindProperty(mem, obj, n)
  IN CASE obj = 0 -> UNCHANGED objVars
       [] obj # 0 /\ ~Found(mem, addr, n) -> RuntimeError(ERR_NO_PROP)
       [] OTHER -> Does(IF OneByte(mem[addr]) THEN [mem EXCEPT ![addr + 1] = v % 256] ELSE SetWord(mem, addr + 1, v))
ZPutProp == \E c \in PropCalls : fatal = 0 /\ PutProp(c[1], c[2], c[3])

ObjNext == ZInsertObj \/ ZRemoveObj \/ ZSetAttr \/ ZClearAttr \/ ZPutProp

(***************************************************************************)
(* The things of the abstract world are what a story sees of the memory.   *)
(***************************************************************************)
RECURSIVE Row(_, _, _)
Row(m, obj, most) == IF obj = 0 \/ most = 0 THEN <<>> ELSE <<obj>> \o Row(m, GetSibling(m, obj), most - 1)
Contents(m, obj) == Row(m, GetChild(m, obj), NumObjects + 1)
Numbers(obj) == {Layout[obj][i][1] : i \in DOMAIN Layout[obj]}
\* get_prop and put_prop are for properties of one byte or two.
Small(obj) == {Layout[obj][i][1] : i \in {j \in DOMAIN Layout[obj] : Layout[obj][j][2] <= 2}}
LengthOf(obj, n) == (CHOOSE p \in Range(Layout[obj]) : p[1] = n)[2]
AllAttributes == 0 .. (IF V3 THEN 31 ELSE 47)

World == INSTANCE ZWorld WITH
  Things <- Objects, Attributes <- {c[2] : c \in AttrCalls}, Values <- {c[3] : c \in PropCalls},
  Limit <- [obj \in Objects |-> [n \in Small(obj) |-> IF LengthOf(obj, n) = 1 THEN 256 ELSE 65536]],
  kids <- [obj \in Objects |-> Contents(mem, obj)],
  has <- [obj \in Objects |-> {n \in AllAttributes : TestAttr(mem, obj, n)}],
  prop <- [obj \in Objects |-> [n \in Small(obj) |-> GetProp(mem, obj, n)]]

\* Every operation on the memory does to the things it holds what ZWorld says
\* and nothing more: an attribute does not spill into the parent behind it, a
\* property not into the size of the next (object.c).  (This is World!Spec, with
\* the steps of other parts looked at first.)
ObjectsAreThings == World!Init /\ [][UNCHANGED objVars \/ World!Next]_(World!vars)

\* What an object says of its parent, jin of it, and what its parent says of
\* its children agree; an object that is nowhere has no sibling.
ParentsAgree ==
  \A obj \in Objects :
    LET parent == GetParent(mem, obj)
    IN /\ \A p \in Objects : Jin(mem, obj, p) = (\E i \in DOMAIN Contents(mem, p) : Contents(mem, p)[i] = obj)
       /\ parent = 0 => GetSibling(mem, obj) = 0

\* Whatever is stored in properties, asking for one after the other gives all
\* that the object has, each with its address and its length; and for others
\* the default.
RECURSIVE Listed(_, _, _)
Listed(m, obj, n) == LET next == GetNextProp(m, obj, n) IN IF next = 0 THEN <<>> ELSE <<next>> \o Listed(m, obj, next)
PropertiesAreListed ==
  \A obj \in Objects :
    LET numbers == [i \in DOMAIN Layout[obj] |-> Layout[obj][i][1]]
        Area(i) == LET a == GetPropAddr(mem, obj, numbers[i]) IN a .. a + Layout[obj][i][2] - 1
    IN /\ Listed(mem, obj, 0) = numbers
       /\ \A i \in DOMAIN numbers : GetPropLen(mem, GetPropAddr(mem, obj, numbers[i])) = Layout[obj][i][2]
       /\ \A i, j \in DOMAIN numbers : i # j => Area(i) \cap Area(j) = {}
       /\ \A n \in (1 .. Mask) \ Numbers(obj) : GetPropAddr(mem, obj, n) = 0 /\ GetProp(mem, obj, n) = n + 1000
=============================================================================
