------------------------------ MODULE StrExpan ------------------------------
(***************************************************************************)
(* obj_stringexpansion (obj.c), the m_strexpan of every object: the        *)
(* expansion of a topic or payload template of the configuration into a    *)
(* buffer of the caller, one round of its loop per step, and the chain of  *)
(* strncmp by which m_getvar finds a variable.                             *)
(*                                                                         *)
(* A template is a sequence of items: a plain character ('{' before        *)
(* anything but a letter is one of them), a reference {key}, or a '{' and  *)
(* a letter that lack their '}'.  The output is counted in the same units: *)
(* the text of a reference that is copied unexpanded is one item of the    *)
(* buffer.                                                                 *)
(***************************************************************************)
EXTENDS Naturals, SequencesExt

CONSTANTS
    Plain,          \* plain characters of the templates: <<c>>
    Keys,           \* keys of the references
    Names,          \* the variables in the order m_getvar compares them
    Value,          \* the text of each of them
    Size,           \* of the buffer
    MaxItems,       \* bound: items of a template
    MaxHeap         \* bound: bytes read behind the template

NUL   == <<"NUL">>      \* the end of a C string
Stale == <<"Stale">>    \* what an earlier expansion left in the buffer
Heap  == <<"Heap">>     \* a byte of whatever lies behind the template

Open  == <<"{">>        \* '{' and a letter, without their '}'

Refs == {<<"{", key>> : key \in Keys}
Key(ref) == ref[2]

ASSUME StrExpanAssumption ==
    /\ Names \in Seq(STRING)
    /\ \A name \in Keys \union Range(Names) : Len(name) \in Nat
    /\ \A n \in DOMAIN Names : Value[n] \in Seq(Plain)
    /\ \A n \in DOMAIN Names : \A m \in 1 .. n - 1 :    \* as in the code
           IsPrefix(Names[n], Names[m]) => Names[n] = Names[m]
    /\ {NUL, Stale, Heap, Open} \intersect Plain = {}
    /\ Refs \intersect Plain = {}
    /\ Size \in Nat /\ MaxItems \in Nat /\ MaxHeap \in Nat \ {0}

VARIABLES
    str,            \* the template
    pos,            \* the item that the pointer str has reached
    dptr,           \* the buffer
    finallen,       \* items written, the return value at the end
    pc              \* "head": the loop condition, "copy": dptr[..] = *str++,
                    \* "wild": str points anywhere

vars == <<str, pos, dptr, finallen, pc>>

Items == Plain \union Refs \union {Open}

TypeOK ==
    /\ str \in SeqOf(Items, MaxItems)
    /\ pos \in 1 .. Len(str) + 1 + MaxHeap
    /\ dptr \in [1 .. Size -> Items \union {NUL, Stale, Heap}]
    /\ finallen \in 0 .. Size
    /\ pc \in {"head", "copy", "done", "wild"}

(* A buffer fresh from "= {0}", or the one mqtt_suballtopic uses again.    *)
Init ==
    /\ str \in SeqOf(Items, MaxItems)
    /\ pos = 1
    /\ \E c \in {NUL, Stale} : dptr = [n \in 1 .. Size |-> c]
    /\ finallen = 0
    /\ pc = "head"

-----------------------------------------------------------------------------
(* The byte str points at; MaxHeap bytes further on there is a NUL.        *)
ByteAt(p) ==
    IF p <= Len(str) THEN {str[p]}
    ELSE IF p = Len(str) + 1 THEN {NUL}
    ELSE IF p <= Len(str) + MaxHeap THEN {NUL, Heap}
    ELSE {NUL}

(* m_getvar compares the key with the names one after the other, up to the *)
(* length of the key: the first name that begins with it.                  *)
Found(key) == {n \in DOMAIN Names : IsPrefix(key, Names[n])}

Getvar(key) == IF Found(key) = {} THEN <<>> ELSE Value[Min(Found(key))]

(* Text written to the buffer behind what is there already. *)
Written(text) ==
    [n \in 1 .. Size |-> IF n - finallen \in 1 .. Len(text)
                         THEN text[n - finallen] ELSE dptr[n]]

(* Mutant: the NUL of sprintf is counted. *)
ExpandCountingNul ==
    /\ pc = "head"
    /\ \E c \in ByteAt(pos) \intersect Refs :
           LET text == Append(Getvar(Key(c)), NUL)
           IN  /\ dptr' = Written(text)
               /\ finallen' = finallen + Len(text)
    /\ pos' = pos + 1
    /\ pc' = "copy"
    /\ UNCHANGED str

(* str[0] == '{' && isalpha(str[1]): the value, and str behind the '}'.    *)
(* The sprintf of m_getvar writes a NUL behind the value.                  *)
Expand ==
    /\ pc = "head"
    /\ \E c \in ByteAt(pos) \intersect Refs :
           LET text == Getvar(Key(c))
           IN  /\ dptr' = IF Found(Key(c)) = {} THEN dptr
                                               ELSE Written(Append(text, NUL))
               /\ finallen' = finallen + Len(text)
    /\ pos' = pos + 1
    /\ pc' = "copy"
    /\ UNCHANGED str

(* strchr finds the '}' of the next reference: the text between them is no *)
(* variable's name, and vanishes.                                          *)
ExpandOpen ==
    /\ pc = "head"
    /\ Open \in ByteAt(pos)
    /\ LET closed == {n \in pos + 1 .. Len(str) : str[n] \in Refs}
       IN  IF closed = {}
           THEN pc' = "wild" /\ UNCHANGED pos    \* strchr returns NULL
           ELSE pc' = "copy" /\ pos' = Min(closed) + 1
    /\ UNCHANGED <<str, dptr, finallen>>

(* Mutant: str is not advanced. *)
CopyInPlace(c) ==
    /\ dptr' = Written(<<c>>)
    /\ finallen' = finallen + 1
    /\ pc' = "head"
    /\ UNCHANGED <<str, pos>>

(* dptr[finallen++] = *str++. *)
Copy(c) ==
    /\ dptr' = Written(<<c>>)
    /\ finallen' = finallen + 1
    /\ pos' = pos + 1
    /\ pc' = "head"
    /\ UNCHANGED str

Literal ==
    /\ pc = "head"
    /\ \E c \in ByteAt(pos) \ (Refs \union {NUL, Open}) : Copy(c)

(* Whatever follows a reference is copied without another look: a second   *)
(* reference as it stands, and even the NUL that ends the template.        *)
CopyNext ==
    /\ pc = "copy"
    /\ \E c \in ByteAt(pos) : Copy(c)

(* Mutant: the buffer is trusted to be zeroed. *)
FinishOpen ==
    /\ pc = "head"
    /\ NUL \in ByteAt(pos)
    /\ finallen' = finallen + 1
    /\ pc' = "done"
    /\ UNCHANGED <<str, pos, dptr>>

(* Mutant: dptr[finallen] = '\0', not counted. *)
FinishUncounted ==
    /\ pc = "head"
    /\ NUL \in ByteAt(pos)
    /\ dptr' = Written(<<NUL>>)
    /\ pc' = "done"
    /\ UNCHANGED <<str, pos, finallen>>

(* *str == '\0': the NUL is written, and counted. *)
Finish ==
    /\ pc = "head"
    /\ NUL \in ByteAt(pos)
    /\ dptr' = Written(<<NUL>>)
    /\ finallen' = finallen + 1
    /\ pc' = "done"
    /\ UNCHANGED <<str, pos>>

Next == Expand \/ ExpandOpen \/ Literal \/ CopyNext \/ Finish

Spec == Init /\ [][Next]_vars

-----------------------------------------------------------------------------
(* What a caller that takes the buffer for a C string sees. *)
CString ==
    LET ends == {n \in 1 .. Size : dptr[n] = NUL}
    IN  IF ends = {} THEN dptr ELSE SubSeq(dptr, 1, Min(ends) - 1)

(* The meaning of a template: every reference stands for the variable of   *)
(* that name, or for the first that it abbreviates.                        *)
Meaning(key) ==
    IF key \in Range(Names)
    THEN Value[CHOOSE n \in DOMAIN Names :
                   /\ Names[n] = key
                   /\ \A m \in 1 .. n - 1 : Names[m] # key]
    ELSE Getvar(key)

Expansion(t) ==
    FlattenSeq([n \in 1 .. Len(t) |->
        IF t[n] \in Refs THEN Meaning(Key(t[n])) ELSE <<t[n]>>])

(* Every reference has its '}' and is followed by a plain character. *)
Spaced(t) == \A n \in 1 .. Len(t) :
                 /\ t[n] # Open
                 /\ t[n] \in Refs => n < Len(t) /\ t[n + 1] \in Plain

(* A template whose references are followed by plain characters is         *)
(* expanded to its meaning, the length that mqtt_tasksrun sends as the     *)
(* payload's is that of the text and one NUL, and nothing behind the       *)
(* template is read: whatever the buffer held before.                      *)
SpacedExpands ==
    (pc \in {"done", "wild"} /\ Spaced(str)) =>
        /\ pc = "done"
        /\ CString = Expansion(str)
        /\ finallen = Len(Expansion(str)) + 1
        /\ pos = Len(str) + 1

(* Whatever the template, what a caller reads, be it up to the NUL (a      *)
(* topic) or up to the returned length (a payload), was written by this    *)
(* call: the buffer that mqtt_suballtopic uses again shows nothing of an   *)
(* earlier topic.                                                          *)
NothingStale ==
    pc = "done" => /\ \E n \in 1 .. finallen : dptr[n] = NUL
                   /\ \A n \in 1 .. finallen : dptr[n] # Stale

(* The buffers have a fixed size (256, 1024, 4096, 10240, 4096000 bytes)   *)
(* and nobody looks at it.  The returned length is all that matters to it: *)
(* no byte behind that length is ever written, not even by the NUL that    *)
(* sprintf puts behind the value of a variable.                            *)
WritesWithinLength ==
    pc = "done" => /\ finallen < Size
                   /\ \A n \in finallen + 1 .. Size : dptr[n] = dptr[Size]

(* What these need, and no code looks at: the buffer has room for MaxItems *)
(* of the longest value, for what is read behind the template, and for the *)
(* NUL.                                                                    *)
Fits(longest) ==
    /\ \A n \in DOMAIN Names : Len(Value[n]) <= longest
    /\ longest * MaxItems + MaxHeap + 1 < Size

Roomy == \E longest \in 1 .. Size : Fits(longest)

-----------------------------------------------------------------------------
(* Claims of the repository that the code does not keep.                   *)

(* "localgeneralsub/{name}" (test/00general): a template may end in a      *)
(* reference; no byte behind the template is looked at.                    *)
StaysInTemplate == pos <= Len(str) + 1
=============================================================================
