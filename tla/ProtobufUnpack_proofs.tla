----------------------- MODULE ProtobufUnpack_proofs -----------------------
(***************************************************************************)
(* Proofs about ProtobufUnpack, for every schema, every bytes and every    *)
(* allocation that fails: what protobuf_c_message_unpack returns is NULL   *)
(* or a whole message of the type, and NULL when an allocation failed; and *)
(* protobuf_c_message_free_unpacked gives all of its blocks back.          *)
(*                                                                         *)
(* Recursion over submessages is over the levels 0..MaxNesting: each       *)
(* operator on a message is proved from what it does on the level below,   *)
(* then on every level, in FreeUnpackedKept, MessagesMerged, Unpacked and  *)
(* UnpackedFreed.                                                          *)
(***************************************************************************)
EXTENDS ProtobufCodec_proofs, FiniteSetTheorems

-----------------------------------------------------------------------------
(* The heap. *)

\* Freeing allocates nothing.
Kept(g, h) == h \in Heaps /\ h.fail = g.fail /\ h.n = g.n
\* What went on from heap g and returned ok left the heap h: no allocation
\* failed unseen.
Honest(g, ok, h) ==
    /\ ok \in BOOLEAN /\ h \in Heaps /\ h.fail = g.fail /\ h.n >= g.n
    /\ ok /\ Failed(h) => Failed(g)

\* A heap is as it was.
LEMMA KeptSame == ASSUME NEW h \in Heaps PROVE Kept(h, h)
BY DEF Kept

\* And so after one such step more.
LEMMA KeptBoth ==
    ASSUME NEW a, NEW b, NEW c, Kept(a, b), Kept(b, c)
    PROVE  Kept(a, c)
BY DEF Kept

\* do_free allocates nothing.
LEMMA FreeKept ==
    ASSUME NEW h \in Heaps, NEW blk
    PROVE  Kept(h, do_free(h, blk))
BY DEF Kept, do_free, Heaps, Fault, Faults

\* do_alloc says when it failed.
LEMMA AllocGoes ==
    ASSUME NEW h \in Heaps
    PROVE  Honest(h, do_alloc(h).ptr # 0, do_alloc(h).h) /\ do_alloc(h).ptr \in Nat
<1> DEFINE n == h.n + 1
<1>1. h.n \in Nat /\ h.fail \in Nat /\ n \in Nat /\ n # 0
  BY DEF Heaps
<1>2. CASE n = h.fail
  <2>1. do_alloc(h) = [ptr |-> 0, h |-> [h EXCEPT !.n = n]]
    BY <1>2 DEF do_alloc
  <2>2. [h EXCEPT !.n = n] \in Heaps
    BY <1>1 DEF Heaps
  <2> QED
    BY <1>1, <2>1, <2>2 DEF Honest, Heaps
<1>3. CASE n # h.fail
  <2> DEFINE g == [h EXCEPT !.n = n, !.live = @ \cup {n}]
  <2>1. do_alloc(h) = [ptr |-> n, h |-> g]
    BY <1>3 DEF do_alloc
  <2>2. g \in Heaps /\ g.n = n /\ g.fail = h.fail
    BY <1>1 DEF Heaps
  <2>3. Failed(g) => Failed(h)
    BY <1>1, <1>3, <2>2 DEF Failed
  <2>4. do_alloc(h).ptr = n /\ do_alloc(h).h = g
    BY <2>1
  <2> HIDE DEF g, n
  <2>5. Honest(h, TRUE, g)
    BY <1>1, <2>2, <2>3 DEF Honest, n
  <2>6. (n # 0) = TRUE /\ n \in Nat
    BY <1>1
  <2> QED
    BY <2>4, <2>5, <2>6
<1> QED
  BY <1>2, <1>3

\* Two steps that tell of their failures, one after the other, tell.
LEMMA GoesOn ==
    ASSUME NEW a \in Heaps, NEW b, NEW c, NEW ok1, NEW ok2,
           Honest(a, ok1, b), Honest(b, ok2, c), ok2 => ok1
    PROVE  Honest(a, ok2, c)
BY DEF Honest, Heaps

\* Freeing afterwards changes nothing of it.
LEMMA KeptGoes ==
    ASSUME NEW a \in Heaps, NEW b, NEW c, NEW ok, Honest(a, ok, b), Kept(b, c)
    PROVE  Honest(a, ok, c)
BY DEF Honest, Kept, Failed, Heaps

\* Freeing alone cannot fail.
LEMMA StillGoes ==
    ASSUME NEW a \in Heaps, NEW b, Kept(a, b)
    PROVE  \A ok \in BOOLEAN : Honest(a, ok, b)
BY DEF Honest, Kept, Failed, Heaps

\* A string's block, and a list of blocks.
LEMMA TextKept ==
    ASSUME NEW h \in Heaps, NEW p, NEW default
    PROVE  Kept(h, free_text(h, p, default))
BY FreeKept, KeptSame, Zenon DEF free_text

\* A loop of frees.
LEMMA KeptAll ==
    ASSUME NEW N \in Nat, NEW t, t[0] \in Heaps,
           \A k \in 1..N : t[k - 1] \in Heaps => Kept(t[k - 1], t[k])
    PROVE  Kept(t[0], t[N])
<1> DEFINE S == {k \in Nat : Kept(t[0], t[k])}
<1>1. 0 \in S
  BY KeptSame
<1>2. ASSUME NEW k \in 1..N, k - 1 \in S
      PROVE  k \in S
  <2>1. Kept(t[0], t[k - 1]) /\ t[k - 1] \in Heaps
    BY <1>2 DEF Kept
  <2>2. Kept(t[0], t[k])
    BY <2>1, KeptBoth, Zenon
  <2> QED
    BY <2>2
<1> HIDE DEF S
<1>3. \A k \in 0..N : k \in S
  BY <1>1, <1>2, Along
<1> QED
  BY <1>3 DEF S

\* The rounds of freeing a list of blocks.
LEMMA BlocksRounds ==
    ASSUME NEW h \in Heaps, NEW blocks, Len(blocks) \in Nat
    PROVE  \E loop : /\ loop[0] = h
                     /\ \A k \in 1..Len(blocks) : loop[k] = do_free(loop[k - 1], blocks[k])
                     /\ free_blocks(h, blocks) = loop[Len(blocks)]
<1> DEFINE N == Len(blocks)
           F(f) == [k \in 0..N |-> IF k = 0 THEN h ELSE do_free(f[k - 1], blocks[k])]
           freed == CHOOSE f : f = F(f)
           g == [k \in 1..N |-> [v \in Heaps |-> do_free(v, blocks[k])]]
<1>1. free_blocks(h, blocks) = freed[N]
  BY DEF free_blocks
<1>2. \A v \in Heaps, k \in 1..N : do_free(v, blocks[k]) \in Heaps
  BY FreeKept, Zenon DEF Kept
<1>3. g \in [1..N -> [Heaps -> Heaps]] /\ \A k \in 1..N, v \in Heaps : g[k][v] = do_free(v, blocks[k])
  BY <1>2
<1> HIDE DEF g, N
<1>4. N \in Nat
  BY DEF N
<1>5. PICK f : Recursive(f, N, Heaps, h, g)
  BY <1>3, <1>4, Recursion
<1>6. f \in [0..N -> Heaps] /\ f[0] = h /\ \A k \in 1..N : f[k] = g[k][f[k - 1]]
  BY <1>5, Zenon DEF Recursive
<1>7. ASSUME NEW k \in 1..N
      PROVE  f[k] = do_free(f[k - 1], blocks[k])
  BY <1>3, <1>4, <1>6
<1>8. f = F(f)
  BY <1>4, <1>6, <1>7
<1>9. freed = F(freed)
  BY <1>8, Zenon
<1> HIDE DEF freed
<1>10. freed[0] = h /\ \A k \in 1..N : freed[k] = do_free(freed[k - 1], blocks[k])
  BY <1>4, <1>9
<1> QED
  BY <1>1, <1>10 DEF N

\* Freeing a list of blocks.
LEMMA BlocksKept ==
    ASSUME NEW h \in Heaps, NEW blocks, Len(blocks) \in Nat
    PROVE  Kept(h, free_blocks(h, blocks))
<1> DEFINE N == Len(blocks)
<1>1. PICK loop : /\ loop[0] = h
                  /\ \A k \in 1..N : loop[k] = do_free(loop[k - 1], blocks[k])
                  /\ free_blocks(h, blocks) = loop[N]
  BY BlocksRounds
<1>2. \A k \in 1..N : loop[k - 1] \in Heaps => Kept(loop[k - 1], loop[k])
  BY <1>1, FreeKept
<1>3. Kept(loop[0], loop[N])
  BY <1>1, <1>2, KeptAll
<1> QED
  BY <1>1, <1>3

-----------------------------------------------------------------------------
(* What the receiver makes of its messages, whatever the bytes. *)

UnknownRecords == [tag : Nat, wire_type : Nat, blk : Nat, s : Seq(Byte)]
FieldsOf(m) == Descriptors[m.descriptor].fields
Headed(m) ==
    /\ m.descriptor \in DOMAIN Descriptors /\ Header \subseteq DOMAIN m
    /\ m.blk \in Nat /\ m.unknown_fields \in Seq(Nat) /\ m.unknown \in Seq(UnknownRecords)

\* The case of a oneof is 0, with nothing in it, or the number of a member.
Sharing(m, f, c) ==
    \E i \in DOMAIN FieldsOf(m) :
        LET g == FieldsOf(m)[i]
        IN  /\ InOneof(g) /\ g.id = c
            /\ g.offset = f.offset /\ g.quantifier_offset = f.quantifier_offset
CaseGood(m, f) ==
    LET c == m[f.quantifier_offset]
    IN  (c = 0 /\ m[f.offset] = NULL) \/ Sharing(m, f, c)
SlotGood(m, f) ==
    /\ {f.offset, f.quantifier_offset} \subseteq DOMAIN m
    /\ f.label = "REPEATED" => m[f.quantifier_offset] \in Nat
    /\ InOneof(f) => CaseGood(m, f)
Shaped(m, f) ==
    /\ SlotGood(m, f)
    /\ f.type = "MESSAGE" =>
          \A k \in DOMAIN Held(m, f) :
              Held(m, f)[k] # NULL => Held(m, f)[k][1].descriptor = f.descriptor
Formed(m) == Headed(m) /\ \A i \in DOMAIN FieldsOf(m) : Shaped(m, FieldsOf(m)[i])

\* A message formed, and all below it, which ends after d levels.
Deep(d, m) ==
    \A k \in 0..d : \A x \in Nested(m)[k] : Formed(x) /\ (k = d => Submessages(x) = {})

\* The same by field: what it holds is such a message of one level less.
Under(d, f, x) == d >= 1 /\ Deep(d - 1, x) /\ x.descriptor = f.descriptor
Holds(d, m, f) ==
    /\ SlotGood(m, f)
    /\ f.type = "MESSAGE" =>
          \A k \in DOMAIN Held(m, f) : Held(m, f)[k] # NULL => Under(d, f, Held(m, f)[k][1])
Whole(d, m) == Headed(m) /\ \A i \in DOMAIN FieldsOf(m) : Holds(d, m, FieldsOf(m)[i])

\* The submessages are what the fields hold.
LEMMA SubmessageHeld ==
    ASSUME NEW m, NEW x
    PROVE  x \in Submessages(m) <=>
              \E i \in DOMAIN FieldsOf(m) :
                 /\ FieldsOf(m)[i].type = "MESSAGE"
                 /\ \E k \in DOMAIN Held(m, FieldsOf(m)[i]) :
                       /\ Held(m, FieldsOf(m)[i])[k] # NULL
                       /\ Held(m, FieldsOf(m)[i])[k][1] = x
<1> DEFINE fields == FieldsOf(m)
           of(i) == IF fields[i].type = "MESSAGE" THEN ToSet(Held(m, fields[i])) ELSE {}
           P == (UNION {of(i) : i \in DOMAIN fields}) \ {NULL}
<1>1. Submessages(m) = {p[1] : p \in P}
  BY Zenon DEF Submessages, FieldsOf
<1>2. ASSUME NEW p
      PROVE  p \in P <=> p # NULL /\ \E i \in DOMAIN fields :
                  fields[i].type = "MESSAGE" /\ \E k \in DOMAIN Held(m, fields[i]) : Held(m, fields[i])[k] = p
  <2>1. p \in P <=> p # NULL /\ \E i \in DOMAIN fields : p \in of(i)
    BY Zenon
  <2>2. ASSUME NEW i
        PROVE  p \in of(i) <=> fields[i].type = "MESSAGE" /\ \E k \in DOMAIN Held(m, fields[i]) :
                                   Held(m, fields[i])[k] = p
    BY Zenon DEF ToSet
  <2> HIDE DEF of, P, fields
  <2> QED
    BY <2>1, <2>2, Zenon
<1> HIDE DEF P, of
<1>3. x \in Submessages(m) <=> \E p : p \in P /\ p[1] = x
  BY <1>1, Zenon
<1> DEFINE InRow(i, p) == fields[i].type = "MESSAGE" /\ \E k \in DOMAIN Held(m, fields[i]) :
                             Held(m, fields[i])[k] = p
<1>4. \A p : p \in P <=> p # NULL /\ \E i \in DOMAIN fields : InRow(i, p)
  BY <1>2, Zenon
<1>5. \A i : (\E p : p # NULL /\ InRow(i, p) /\ p[1] = x) <=>
              fields[i].type = "MESSAGE" /\ \E k \in DOMAIN Held(m, fields[i]) :
                 Held(m, fields[i])[k] # NULL /\ Held(m, fields[i])[k][1] = x
  BY Zenon
<1> HIDE DEF InRow
<1>6. x \in Submessages(m) <=>
        \E i \in DOMAIN fields : \E p : p # NULL /\ InRow(i, p) /\ p[1] = x
  BY <1>3, <1>4, Zenon
<1>7. x \in Submessages(m) <=>
        \E i \in DOMAIN fields :
           fields[i].type = "MESSAGE" /\ \E k \in DOMAIN Held(m, fields[i]) :
              Held(m, fields[i])[k] # NULL /\ Held(m, fields[i])[k][1] = x
  BY <1>5, <1>6, Zenon
<1> QED
  BY <1>7, Zenon

\* The messages k levels below one are those k - 1 levels below its submessages.
LEMMA NestedBelow ==
    ASSUME NEW m, NEW k \in 1..MaxNesting
    PROVE  Nested(m)[k] = UNION {Nested(x)[k - 1] : x \in Submessages(m)}
<1> DEFINE N == MaxNesting
           S == {j \in 0..N : j = 0 \/ Nested(m)[j] = UNION {Nested(x)[j - 1] : x \in Submessages(m)}}
<1>1. N \in Nat
  BY NestingAssumption
<1>2. 0 \in S
  BY <1>1
<1>3. ASSUME NEW j \in 1..N, j - 1 \in S
      PROVE  Nested(m)[j] = UNION {Nested(x)[j - 1] : x \in Submessages(m)}
  <2>1. Nested(m)[j] = UNION {Submessages(y) : y \in Nested(m)[j - 1]}
    BY NestedLevels, Zenon
  <2>2. CASE j = 1
    <3>1. j - 1 = 0
      BY <2>2
    <3>2. Nested(m)[j - 1] = {m} /\ \A x : Nested(x)[j - 1] = {x}
      BY <3>1, NestedLevels, Zenon
    <3>3. Nested(m)[j] = UNION {Submessages(y) : y \in {m}}
      BY <2>1, <3>2, Zenon
    <3>4. Nested(m)[j] = Submessages(m)
      BY <3>3
    <3>5. UNION {Nested(x)[j - 1] : x \in Submessages(m)} = UNION {{x} : x \in Submessages(m)}
      BY <3>2
    <3>6. UNION {{x} : x \in Submessages(m)} = Submessages(m)
      OBVIOUS
    <3> QED
      BY <3>4, <3>5, <3>6, Zenon
  <2>3. CASE j # 1
    <3>1. j - 1 \in 1..N /\ j - 1 # 0
      BY <1>1, <2>3
    <3> DEFINE i == j - 1
    <3>2. Nested(m)[i] = UNION {Nested(x)[i - 1] : x \in Submessages(m)}
      BY <1>3, <3>1, Zenon
    <3>3. \A x : Nested(x)[i] = UNION {Submessages(y) : y \in Nested(x)[i - 1]}
      BY <3>1, NestedLevels, Zenon
    <3> HIDE DEF i
    <3>4. UNION {Submessages(y) : y \in UNION {Nested(x)[i - 1] : x \in Submessages(m)}}
            = UNION {UNION {Submessages(y) : y \in Nested(x)[i - 1]} : x \in Submessages(m)}
      OBVIOUS
    <3> QED
      BY <2>1, <3>2, <3>3, <3>4 DEF i
  <2> QED
    BY <2>2, <2>3
<1>4. \A j \in 1..N : j - 1 \in S => j \in S
  BY <1>1, <1>3
<1> HIDE DEF S
<1>5. \A j \in 0..N : j \in S
  BY <1>1, <1>2, <1>4, Along
<1>6. k \in S /\ k # 0
  BY <1>1, <1>5
<1> QED
  BY <1>6 DEF S

\* The two ways to say what a message is agree.
LEMMA DeepWhole ==
    ASSUME NEW d \in 0..MaxNesting, NEW m
    PROVE  Deep(d, m) <=> Whole(d, m)
<1>1. MaxNesting \in Nat /\ d \in Nat /\ 0 \in 0..d
  BY NestingAssumption
<1>2. Nested(m)[0] = {m} /\ \A x : Nested(x)[0] = {x}
  BY NestedLevels, Zenon
<1>3. \A k \in 1..d : Nested(m)[k] = UNION {Nested(x)[k - 1] : x \in Submessages(m)}
  BY <1>1, NestedBelow
<1>4. Deep(d, m) <=> /\ Formed(m) /\ (d = 0 => Submessages(m) = {})
                     /\ \A x \in Submessages(m) : d >= 1 /\ Deep(d - 1, x)
  <2>1. ASSUME Deep(d, m)
        PROVE  Formed(m) /\ (d = 0 => Submessages(m) = {})
    BY <1>1, <1>2, <2>1, Zenon DEF Deep
  <2>2. ASSUME Deep(d, m), NEW x \in Submessages(m)
        PROVE  d >= 1 /\ Deep(d - 1, x)
    <3>1. d # 0
      BY <2>1, <2>2, Zenon
    <3>2. d >= 1
      BY <1>1, <3>1
    <3>3. ASSUME NEW k \in 0..(d - 1), NEW y \in Nested(x)[k]
          PROVE  Formed(y) /\ (k = d - 1 => Submessages(y) = {})
      <4>1. k + 1 \in 1..d /\ k + 1 \in 0..d /\ (k + 1) - 1 = k /\ (k = d - 1 => k + 1 = d)
        BY <1>1, <3>2
      <4>2. y \in Nested(m)[k + 1]
        BY <1>3, <2>2, <4>1, Zenon
      <4> QED
        BY <2>2, <4>1, <4>2, Zenon DEF Deep
    <3> QED
      BY <3>2, <3>3, Zenon DEF Deep
  <2>3. ASSUME Formed(m), d = 0 => Submessages(m) = {},
               \A x \in Submessages(m) : d >= 1 /\ Deep(d - 1, x)
        PROVE  Deep(d, m)
    <3>1. ASSUME NEW k \in 0..d, NEW y \in Nested(m)[k]
          PROVE  Formed(y) /\ (k = d => Submessages(y) = {})
      <4>1. CASE k = 0
        <5>1. y = m
          BY <1>2, <3>1, <4>1
        <5> QED
          BY <2>3, <4>1, <5>1
      <4>2. CASE k # 0
        <5>1. k \in 1..d /\ k - 1 \in 0..(d - 1) /\ (k = d => k - 1 = d - 1)
          BY <1>1, <4>2
        <5>2. PICK x \in Submessages(m) : y \in Nested(x)[k - 1]
          <6>1. y \in UNION {Nested(x)[k - 1] : x \in Submessages(m)}
            BY <1>3, <3>1, <5>1, Zenon
          <6> QED
            BY <6>1
        <5>3. Deep(d - 1, x)
          BY <2>3
        <5> QED
          BY <5>1, <5>2, <5>3, Zenon DEF Deep
      <4> QED
        BY <4>1, <4>2
    <3> QED
      BY <3>1, Zenon DEF Deep
  <2> QED
    BY <2>1, <2>2, <2>3, Zenon
<1>5. Whole(d, m) <=> Formed(m) /\ \A x \in Submessages(m) : d >= 1 /\ Deep(d - 1, x)
  <2>1. ASSUME Whole(d, m)
        PROVE  Formed(m)
    BY <2>1, Zenon DEF Whole, Holds, Formed, Shaped, Under
  <2>2. ASSUME Whole(d, m), NEW x \in Submessages(m)
        PROVE  d >= 1 /\ Deep(d - 1, x)
    <3>1. PICK i \in DOMAIN FieldsOf(m) :
                 /\ FieldsOf(m)[i].type = "MESSAGE"
                 /\ \E k \in DOMAIN Held(m, FieldsOf(m)[i]) :
                       /\ Held(m, FieldsOf(m)[i])[k] # NULL
                       /\ Held(m, FieldsOf(m)[i])[k][1] = x
      BY SubmessageHeld
    <3>2. PICK k \in DOMAIN Held(m, FieldsOf(m)[i]) :
                       /\ Held(m, FieldsOf(m)[i])[k] # NULL
                       /\ Held(m, FieldsOf(m)[i])[k][1] = x
      BY <3>1, Zenon
    <3>3. Holds(d, m, FieldsOf(m)[i])
      BY <2>2, Zenon DEF Whole
    <3> QED
      BY <3>1, <3>2, <3>3, Zenon DEF Holds, Under
  <2>3. ASSUME Formed(m), \A x \in Submessages(m) : d >= 1 /\ Deep(d - 1, x),
               NEW i \in DOMAIN FieldsOf(m)
        PROVE  Holds(d, m, FieldsOf(m)[i])
    <3>1. Shaped(m, FieldsOf(m)[i])
      BY <2>3, Zenon DEF Formed
    <3>2. ASSUME FieldsOf(m)[i].type = "MESSAGE", NEW k \in DOMAIN Held(m, FieldsOf(m)[i]),
                 Held(m, FieldsOf(m)[i])[k] # NULL
          PROVE  Under(d, FieldsOf(m)[i], Held(m, FieldsOf(m)[i])[k][1])
      <4>1. Held(m, FieldsOf(m)[i])[k][1] \in Submessages(m)
        BY <3>2, SubmessageHeld, Zenon
      <4> QED
        BY <2>3, <3>1, <3>2, <4>1, Zenon DEF Shaped, Under
    <3> QED
      BY <3>1, <3>2, Zenon DEF Shaped, Holds
  <2>4. Formed(m) => Headed(m)
    BY Zenon DEF Formed
  <2> QED
    BY <2>1, <2>2, <2>3, <2>4, Zenon DEF Whole
<1>6. (\A x \in Submessages(m) : d >= 1 /\ Deep(d - 1, x)) => (d = 0 => Submessages(m) = {})
  BY <1>1
<1> QED
  BY <1>4, <1>5, <1>6, Zenon

-----------------------------------------------------------------------------
(* Freeing. *)

\* free may be used for what p points to.
Freed(free, p) == p # NULL => \A g \in Heaps : Kept(g, free[p[1]][g])
AllFreed(free, s) == \A k \in DOMAIN s : Freed(free, s[k])

\* Freeing what lies behind a pointer.
LEMMA PointerKept ==
    ASSUME NEW free, NEW h \in Heaps, NEW type, NEW p, NEW default,
           type = "MESSAGE" => Freed(free, p)
    PROVE  Kept(h, free_pointer(free, h, type, p, default))
BY TextKept, KeptSame, Zenon DEF free_pointer, Freed

\* The rounds of freeing the elements of an array.
ElementsLoop(free, h, type, count, e, loop) ==
    /\ loop[0] = h
    /\ \A k \in 1..count :
          /\ loop[k] = free_pointer(free, loop[k - 1], type, e[k], NULL)
          /\ loop[k - 1] \in Heaps => Kept(loop[k - 1], loop[k])

\* Then the array is freed, but of one that has no pointers.
ArrayFreed(free, h, field, count, array, loop) ==
    free_array(free, h, field, count, array) =
        IF array = NULL THEN h
        ELSE do_free(IF field.type \in Pointer THEN loop[count] ELSE h, array[1].blk)

\* There are such.
LEMMA ArrayRounds ==
    ASSUME NEW free, NEW h \in Heaps, NEW field, NEW count \in Nat, NEW array,
           field.type = "MESSAGE" => AllFreed(free, Elements(count, array))
    PROVE  \E loop :
              /\ ElementsLoop(free, h, field.type, count, Elements(count, array), loop)
              /\ ArrayFreed(free, h, field, count, array, loop)
<1> DEFINE N == count
           e == Elements(count, array)
           Op(v, k) == free_pointer(free, v, field.type, e[k], NULL)
           F(f) == [k \in 0..N |-> IF k = 0 THEN h ELSE Op(f[k - 1], k)]
           freed == CHOOSE f : f = F(f)
           g == [k \in 1..N |-> [v \in Heaps |-> Op(v, k)]]
<1>1. free_array(free, h, field, count, array) =
         IF array = NULL THEN h
         ELSE do_free(IF field.type \in Pointer THEN freed[N] ELSE h, array[1].blk)
  BY DEF free_array
<1>2. N \in Nat /\ DOMAIN e = 1..N
  BY DEF Elements
<1>3. \A v \in Heaps, k \in 1..N : Kept(v, Op(v, k))
  BY <1>2, PointerKept, Zenon DEF AllFreed
<1> HIDE DEF Op, e, N
<1>4. \A v \in Heaps, k \in 1..N : Op(v, k) \in Heaps
  BY <1>3, Zenon DEF Kept
<1>5. g \in [1..N -> [Heaps -> Heaps]] /\ \A k \in 1..N, v \in Heaps : g[k][v] = Op(v, k)
  BY <1>4
<1> HIDE DEF g
<1>6. PICK f : Recursive(f, N, Heaps, h, g)
  BY <1>2, <1>5, Recursion
<1>7. f \in [0..N -> Heaps] /\ f[0] = h /\ \A k \in 1..N : f[k] = g[k][f[k - 1]]
  BY <1>6, Zenon DEF Recursive
<1>8. ASSUME NEW k \in 1..N
      PROVE  f[k] = Op(f[k - 1], k)
  BY <1>2, <1>5, <1>7
<1>9. f = F(f)
  BY <1>2, <1>7, <1>8
<1>10. freed = F(freed)
  BY <1>9, Zenon
<1> HIDE DEF freed
<1>11. freed[0] = h /\ \A k \in 1..N : freed[k] = Op(freed[k - 1], k)
  BY <1>2, <1>10
<1>12. \A k \in 1..N : freed[k - 1] \in Heaps => Kept(freed[k - 1], freed[k])
  BY <1>3, <1>11, Zenon
<1>13. ElementsLoop(free, h, field.type, N, e, freed)
  BY <1>11, <1>12, Zenon DEF ElementsLoop, Op
<1> QED
  BY <1>1, <1>13, Zenon DEF e, N, ArrayFreed

\* Freeing the elements of an array, and the array.
LEMMA ArrayKept ==
    ASSUME NEW free, NEW h \in Heaps, NEW field, NEW count \in Nat, NEW array,
           field.type = "MESSAGE" => AllFreed(free, Elements(count, array))
    PROVE  Kept(h, free_array(free, h, field, count, array))
<1>1. PICK loop :
         /\ ElementsLoop(free, h, field.type, count, Elements(count, array), loop)
         /\ ArrayFreed(free, h, field, count, array, loop)
  BY ArrayRounds, Zenon
<1>2. Kept(h, loop[count])
  BY <1>1, KeptAll DEF ElementsLoop
<1>3. Kept(h, IF field.type \in Pointer THEN loop[count] ELSE h)
  BY <1>2, KeptSame
<1>4. Kept(h, do_free(IF field.type \in Pointer THEN loop[count] ELSE h, array[1].blk))
  BY <1>3, FreeKept, KeptBoth, Zenon DEF Kept
<1> QED
  BY <1>1, <1>4, KeptSame DEF ArrayFreed

\* Freeing a member of a message.
LEMMA MemberKept ==
    ASSUME NEW free, NEW h \in Heaps, NEW m, NEW f, SlotGood(m, f),
           f.type = "MESSAGE" => AllFreed(free, Held(m, f))
    PROVE  Kept(h, free_member(free, h, f, m[f.offset], m[f.quantifier_offset]))
<1> DEFINE member == m[f.offset]
           quantifier == m[f.quantifier_offset]
<1>1. CASE InOneof(f) /\ quantifier # f.id
  BY <1>1, KeptSame, Zenon DEF free_member
<1>2. CASE ~ (InOneof(f) /\ quantifier # f.id) /\ f.label = "REPEATED"
  <2>1. quantifier \in Nat /\ Held(m, f) = Elements(quantifier, member)
    BY <1>2, Zenon DEF SlotGood, Held
  <2>2. Kept(h, free_array(free, h, f, quantifier, member))
    BY <2>1, ArrayKept, Zenon
  <2> QED
    BY <1>2, <2>2, Zenon DEF free_member
<1>3. CASE ~ (InOneof(f) /\ quantifier # f.id) /\ f.label # "REPEATED"
  <2>1. Held(m, f) = <<member>>
    BY <1>3, Zenon DEF Held
  <2>2. DOMAIN <<member>> = 1..1 /\ <<member>>[1] = member /\ 1 \in 1..1
    OBVIOUS
  <2>3. f.type = "MESSAGE" => Freed(free, member)
    BY <2>1, <2>2, Zenon DEF AllFreed
  <2>4. Kept(h, free_pointer(free, h, f.type, member, f.default_value))
    BY <2>3, PointerKept, Zenon
  <2> QED
    BY <1>3, <2>4, KeptSame, Zenon DEF free_member
<1> QED
  BY <1>1, <1>2, <1>3

\* free may be used for the submessages.
FreesUnder(free, m) == \A x \in Submessages(m), g \in Heaps : Kept(g, free[x][g])

\* What a field holds is what frees below.
LEMMA UnderFreed ==
    ASSUME NEW free, NEW m, FreesUnder(free, m), NEW i \in DOMAIN FieldsOf(m),
           FieldsOf(m)[i].type = "MESSAGE"
    PROVE  AllFreed(free, Held(m, FieldsOf(m)[i]))
<1> SUFFICES ASSUME NEW k \in DOMAIN Held(m, FieldsOf(m)[i]), Held(m, FieldsOf(m)[i])[k] # NULL
             PROVE  \A g \in Heaps : Kept(g, free[Held(m, FieldsOf(m)[i])[k][1]][g])
  BY Zenon DEF AllFreed, Freed
<1>1. Held(m, FieldsOf(m)[i])[k][1] \in Submessages(m)
  BY SubmessageHeld, Zenon
<1> QED
  BY <1>1, Zenon DEF FreesUnder

\* A table of fields has a number of rows.
LEMMA FieldRows ==
    ASSUME NEW t \in DOMAIN Descriptors
    PROVE  LET fields == Descriptors[t].fields
           IN  /\ Len(fields) \in Nat /\ DOMAIN fields = 1..Len(fields)
               /\ \A i \in DOMAIN fields : IsField(fields[i])
BY TablesAssumption, Zenon DEF TableOf, IsTable

\* The blocks of the message itself are a list.
LEMMA HeaderBlocks ==
    ASSUME NEW m, Headed(m)
    PROVE  OwnBlocks(m) \in Seq(Nat)
<1> DEFINE s == [k \in DOMAIN m.unknown |-> m.unknown[k].blk]
<1>1. m.blk \in Nat /\ m.unknown_fields \in Seq(Nat) /\ m.unknown \in Seq(UnknownRecords)
  BY Zenon DEF Headed
<1>2. s \in Seq(Nat)
  <2> DEFINE u == m.unknown
             n == Len(u)
  <2>1. n \in Nat /\ u \in [1..n -> UnknownRecords]
    BY <1>1
  <2>2. \A x \in UnknownRecords : x.blk \in Nat
    BY DEF UnknownRecords
  <2> HIDE DEF u, n
  <2>3. [k \in DOMAIN u |-> u[k].blk] \in [1..n -> Nat]
    BY <2>1, <2>2
  <2>4. [k \in DOMAIN u |-> u[k].blk] \in Seq(Nat)
    BY <2>1, <2>3
  <2> QED
    BY <2>4 DEF u
<1> HIDE DEF s
<1>3. s \o m.unknown_fields \in Seq(Nat) /\ <<m.blk>> \in Seq(Nat)
  BY <1>1, <1>2
<1>4. (s \o m.unknown_fields) \o <<m.blk>> \in Seq(Nat)
  BY <1>3
<1> QED
  BY <1>4 DEF s, OwnBlocks

\* The rounds of freeing the members of a message.
MembersLoop(free, h, m, fields, loop) ==
    /\ loop[0] = h
    /\ \A k \in 1..Len(fields) :
          /\ loop[k] = free_member(free, loop[k - 1], fields[k], m[fields[k].offset],
                                   m[fields[k].quantifier_offset])
          /\ loop[k - 1] \in Heaps => Kept(loop[k - 1], loop[k])

\* There are such.
LEMMA MemberRounds ==
    ASSUME NEW free, NEW m, Headed(m), \A i \in DOMAIN FieldsOf(m) : SlotGood(m, FieldsOf(m)[i]),
           FreesUnder(free, m), NEW h \in Heaps
    PROVE  \E loop :
              /\ MembersLoop(free, h, m, FieldsOf(m), loop)
              /\ message_free(free, m, h) = free_blocks(loop[Len(FieldsOf(m))], OwnBlocks(m))
<1> DEFINE fields == FieldsOf(m)
           N == Len(fields)
           Op(v, k) == free_member(free, v, fields[k], m[fields[k].offset], m[fields[k].quantifier_offset])
           F(f) == [k \in 0..N |-> IF k = 0 THEN h ELSE Op(f[k - 1], k)]
           members == CHOOSE f : f = F(f)
           g == [k \in 1..N |-> [v \in Heaps |-> Op(v, k)]]
<1>1. message_free(free, m, h) = free_blocks(members[N], OwnBlocks(m))
  BY DEF message_free, FieldsOf, OwnBlocks
<1>2. N \in Nat /\ DOMAIN fields = 1..N
  BY FieldRows, Zenon DEF Headed, FieldsOf
<1>3. \A v \in Heaps, k \in 1..N : Kept(v, Op(v, k))
  BY <1>2, MemberKept, UnderFreed, Zenon
<1> HIDE DEF Op, fields, N
<1>4. \A v \in Heaps, k \in 1..N : Op(v, k) \in Heaps
  BY <1>3, Zenon DEF Kept
<1>5. g \in [1..N -> [Heaps -> Heaps]] /\ \A k \in 1..N, v \in Heaps : g[k][v] = Op(v, k)
  BY <1>4
<1> HIDE DEF g
<1>6. PICK f : Recursive(f, N, Heaps, h, g)
  BY <1>2, <1>5, Recursion
<1>7. f \in [0..N -> Heaps] /\ f[0] = h /\ \A k \in 1..N : f[k] = g[k][f[k - 1]]
  BY <1>6, Zenon DEF Recursive
<1>8. ASSUME NEW k \in 1..N
      PROVE  f[k] = Op(f[k - 1], k)
  BY <1>2, <1>5, <1>7
<1>9. f = F(f)
  BY <1>2, <1>7, <1>8
<1>10. members = F(members)
  BY <1>9, Zenon
<1> HIDE DEF members
<1>11. members[0] = h /\ \A k \in 1..N : members[k] = Op(members[k - 1], k)
  BY <1>2, <1>10
<1>12. \A k \in 1..N : members[k - 1] \in Heaps => Kept(members[k - 1], members[k])
  BY <1>3, <1>11, Zenon
<1>13. MembersLoop(free, h, m, fields, members)
  BY <1>11, <1>12, Zenon DEF MembersLoop, Op, N
<1> QED
  BY <1>1, <1>13, Zenon DEF fields, N

\* Freeing a message, when freeing those below allocates nothing.
LEMMA MessageKept ==
    ASSUME NEW free, NEW m, Headed(m), \A i \in DOMAIN FieldsOf(m) : SlotGood(m, FieldsOf(m)[i]),
           FreesUnder(free, m), NEW h \in Heaps
    PROVE  Kept(h, message_free(free, m, h))
<1> DEFINE N == Len(FieldsOf(m))
<1>1. PICK loop :
         /\ MembersLoop(free, h, m, FieldsOf(m), loop)
         /\ message_free(free, m, h) = free_blocks(loop[N], OwnBlocks(m))
  BY MemberRounds, Zenon
<1>2. N \in Nat
  BY FieldRows, Zenon DEF Headed, FieldsOf
<1>3. Kept(h, loop[N])
  BY <1>1, <1>2, KeptAll DEF MembersLoop
<1>4. OwnBlocks(m) \in Seq(Nat)
  BY HeaderBlocks
<1>5. Len(OwnBlocks(m)) \in Nat
  BY <1>4
<1>6. Kept(h, free_blocks(loop[N], OwnBlocks(m)))
  BY <1>3, <1>5, BlocksKept, KeptBoth, Zenon DEF Kept
<1> QED
  BY <1>1, <1>6

\* What frees the messages on each level is made of what frees the level below.
FreesOf(free, message) ==
    /\ \A h : protobuf_c_message_free_unpacked(message, h) = free[MaxNesting][message][h]
    /\ \A n \in 0..MaxNesting :
          free[n] = [m \in Nested(message)[MaxNesting - n] |-> [g \in Heaps |->
              message_free(IF n = 0 THEN <<>> ELSE free[n - 1], m, g)]]

\* There are such functions.
LEMMA FreeLevels ==
    ASSUME NEW message
    PROVE  \E free : FreesOf(free, message)
<1> DEFINE N == MaxNesting
           G(n, f) == [m \in Nested(message)[MaxNesting - n] |-> [g \in Heaps |->
                          message_free(IF n = 0 THEN <<>> ELSE f[n - 1], m, g)]]
           R(j, f) == f = [n \in 0..j |-> G(n, f)]
           free == CHOOSE f : R(N, f)
           S == {j \in Nat : \E f : R(j, f)}
<1>1. N \in Nat
  BY NestingAssumption
<1>2. \A h : protobuf_c_message_free_unpacked(message, h) = free[N][message][h]
  BY DEF protobuf_c_message_free_unpacked
<1>3. \A n, f, h : (n # 0 => f[n - 1] = h[n - 1]) => G(n, f) = G(n, h)
  BY Zenon
<1> HIDE DEF G
<1>4. 0 \in S
  <2>1. \A n \in 0..0 : n = 0
    OBVIOUS
  <2>2. [n \in 0..0 |-> G(0, <<>>)] = [n \in 0..0 |-> G(n, [i \in 0..0 |-> G(0, <<>>)])]
    BY <1>3, <2>1, Zenon
  <2> QED
    BY <2>2
<1>5. ASSUME NEW j \in S
      PROVE  j + 1 \in S
  <2>1. PICK f : R(j, f)
    OBVIOUS
  <2> DEFINE h == [n \in 0..(j + 1) |-> G(n, f)]
  <2>2. \A n \in 0..(j + 1) : n # 0 => n - 1 \in 0..j /\ n - 1 \in 0..(j + 1)
    OBVIOUS
  <2>3. \A n \in 0..(j + 1) : n # 0 => f[n - 1] = h[n - 1]
    BY <2>1, <2>2, Zenon
  <2>4. \A n \in 0..(j + 1) : G(n, f) = G(n, h)
    BY <1>3, <2>3, Zenon
  <2>5. R(j + 1, h)
    BY <2>4, Zenon
  <2>6. j \in Nat /\ j + 1 \in Nat
    OBVIOUS
  <2> HIDE DEF h, R
  <2> QED
    BY <2>5, <2>6, Zenon
<1> HIDE DEF S
<1>6. N \in S
  BY <1>1, <1>4, <1>5, Induction DEF S
<1>7. R(N, free)
  BY <1>6, Zenon DEF S
<1> HIDE DEF free
<1>8. \A n \in 0..N : free[n] = G(n, free)
  BY <1>7, Zenon
<1> QED
  BY <1>2, <1>8, Zenon DEF FreesOf, G

\* A level's submessages are on the next.
LEMMA LevelBelow ==
    ASSUME NEW message, NEW n \in 1..MaxNesting, NEW m \in Nested(message)[MaxNesting - n]
    PROVE  Submessages(m) \subseteq Nested(message)[MaxNesting - (n - 1)]
<1> DEFINE k == MaxNesting - (n - 1)
<1>1. k \in 1..MaxNesting /\ k - 1 = MaxNesting - n
  BY NestingAssumption
<1> HIDE DEF k
<1>2. Nested(message)[k] = UNION {Submessages(x) : x \in Nested(message)[k - 1]}
  BY <1>1, NestedLevels, Zenon
<1>3. m \in Nested(message)[k - 1]
  BY <1>1, Zenon
<1>4. Submessages(m) \subseteq Nested(message)[k]
  BY <1>2, <1>3, Zenon
<1> QED
  BY <1>4 DEF k

\* The message is on the first level.
LEMMA LevelTop ==
    ASSUME NEW message
    PROVE  message \in Nested(message)[MaxNesting - MaxNesting]
<1>1. MaxNesting - MaxNesting = 0
  BY NestingAssumption
<1> QED
  BY <1>1, NestedLevels, Zenon

\* What is below a message, by the level it may go down to.
LEMMA WholeBelow ==
    ASSUME NEW d \in 0..MaxNesting, NEW m, Whole(d, m), NEW x \in Submessages(m)
    PROVE  d # 0 /\ d - 1 \in 0..MaxNesting /\ Whole(d - 1, x)
<1>1. PICK i \in DOMAIN FieldsOf(m) :
         /\ FieldsOf(m)[i].type = "MESSAGE"
         /\ \E k \in DOMAIN Held(m, FieldsOf(m)[i]) :
               /\ Held(m, FieldsOf(m)[i])[k] # NULL
               /\ Held(m, FieldsOf(m)[i])[k][1] = x
  BY SubmessageHeld
<1>2. Under(d, FieldsOf(m)[i], x)
  BY <1>1, Zenon DEF Whole, Holds
<1>3. d >= 1 /\ Deep(d - 1, x)
  BY <1>2, Zenon DEF Under
<1>4. d # 0 /\ d - 1 \in 0..MaxNesting
  BY <1>3, NestingAssumption
<1> QED
  BY <1>3, <1>4, DeepWhole, Zenon

\* protobuf_c_message_free_unpacked allocates nothing, of any message that was
\* unpacked.
LEMMA FreeUnpackedKept ==
    ASSUME NEW d \in 0..MaxNesting, NEW message, Whole(d, message), NEW h \in Heaps
    PROVE  Kept(h, protobuf_c_message_free_unpacked(message, h))
<1> DEFINE N == MaxNesting
           D(n) == Nested(message)[MaxNesting - n]
<1>1. N \in Nat
  BY NestingAssumption
<1>2. PICK free : FreesOf(free, message)
  BY FreeLevels, Zenon
<1>3. ASSUME NEW n \in 0..N, NEW m \in D(n), NEW g \in Heaps
      PROVE  free[n][m][g] = message_free(IF n = 0 THEN <<>> ELSE free[n - 1], m, g)
  <2> DEFINE row == [x \in D(n) |-> [a \in Heaps |->
                        message_free(IF n = 0 THEN <<>> ELSE free[n - 1], x, a)]]
  <2>1. free[n] = row
    BY <1>2, Zenon DEF FreesOf
  <2>2. row[m] = [a \in Heaps |-> message_free(IF n = 0 THEN <<>> ELSE free[n - 1], m, a)]
    BY Zenon
  <2> QED
    BY <2>1, <2>2, Zenon
<1>4. \A n \in 0..N : \A m \in D(n) : n # 0 => \A x \in Submessages(m) : x \in D(n - 1)
  <2>1. ASSUME NEW n \in 0..N, n # 0
        PROVE  n \in 1..N
    BY <1>1, <2>1
  <2> QED
    BY <2>1, LevelBelow, Zenon
<1> HIDE DEF D
<1> DEFINE Frees(n) == \A m \in D(n) : \A e \in 0..n : Whole(e, m) => \A g \in Heaps : Kept(g, free[n][m][g])
           S == {n \in 0..N : Frees(n)}
<1>5. ASSUME NEW n \in 0..N, n = 0 \/ Frees(n - 1)
      PROVE  Frees(n)
  <2> SUFFICES ASSUME NEW m \in D(n), NEW e \in 0..n, Whole(e, m), NEW g \in Heaps
               PROVE  Kept(g, free[n][m][g])
    BY Zenon
  <2> DEFINE below == IF n = 0 THEN <<>> ELSE free[n - 1]
  <2>1. e \in 0..N /\ (n = 0 => e = 0) /\ (e # 0 => e - 1 \in 0..(n - 1))
    BY <1>1
  <2>2. ASSUME NEW x \in Submessages(m), NEW a \in Heaps
        PROVE  Kept(a, below[x][a])
    <3>1. e # 0 /\ Whole(e - 1, x)
      BY <2>1, WholeBelow, Zenon
    <3>2. n # 0 /\ x \in D(n - 1)
      BY <1>4, <2>1, <3>1, Zenon
    <3> QED
      BY <1>5, <2>1, <3>1, <3>2, Zenon
  <2>3. FreesUnder(below, m)
    BY <2>2, Zenon DEF FreesUnder
  <2>4. Headed(m) /\ \A i \in DOMAIN FieldsOf(m) : SlotGood(m, FieldsOf(m)[i])
    BY Zenon DEF Whole, Holds
  <2>5. Kept(g, message_free(below, m, g))
    BY <2>3, <2>4, MessageKept, Zenon
  <2> QED
    BY <1>3, <2>5, Zenon
<1> HIDE DEF Frees
<1>6. 0 \in S /\ \A n \in 1..N : n - 1 \in S => n \in S
  BY <1>1, <1>5
<1> HIDE DEF S
<1>7. N \in S
  BY <1>1, <1>6, Along
<1>8. Frees(N)
  BY <1>7 DEF S
<1>9. message \in D(N)
  BY LevelTop DEF D
<1>10. Kept(h, free[N][message][h])
  BY <1>8, <1>9, Zenon DEF Frees
<1> QED
  BY <1>2, <1>10, Zenon DEF FreesOf

-----------------------------------------------------------------------------
(* One field of a message changes. *)

\* A member of a oneof changes its slot for all members.
Changes(m, x, f) ==
    /\ DOMAIN x = DOMAIN m
    /\ \A s \in DOMAIN m :
          s \notin {f.offset, f.quantifier_offset} \/ s = "descriptor" => x[s] = m[s]

\* What the layout says of one field.
Laid(f) ==
    /\ IsField(f)
    /\ f.offset \notin Header /\ f.offset # f.quantifier_offset /\ f.offset # "descriptor"
    /\ f.quantifier_offset \notin Header \ {"descriptor"}
    /\ f.label = "REPEATED" \/ InOneof(f) => f.quantifier_offset # "descriptor"
    /\ InOneof(f) => f.label \in {"OPTIONAL", "NONE"}
    /\ f.type = "MESSAGE" => f.descriptor \in DOMAIN Descriptors
    /\ f.type = "MESSAGE" \/ InOneof(f) => f.default_value = NULL

\* The layout of one field.
LEMMA LaidOut ==
    ASSUME NEW t \in DOMAIN Descriptors, NEW i \in DOMAIN Descriptors[t].fields
    PROVE  Laid(Descriptors[t].fields[i])
<1>1. Structured(Descriptors[t].fields)
  BY LayoutAssumption, Zenon
<1>2. IsField(Descriptors[t].fields[i])
  BY FieldRows, Zenon
<1>3. "descriptor" \in Header
  BY DEF Header
<1> DEFINE f == Descriptors[t].fields[i]
<1>4. /\ f.offset \notin Header \cup {f.quantifier_offset}
      /\ f.quantifier_offset \notin Header \ {"descriptor"}
      /\ f.label = "REPEATED" \/ InOneof(f) => f.quantifier_offset # "descriptor"
      /\ InOneof(f) => f.label \in {"OPTIONAL", "NONE"}
      /\ f.type = "MESSAGE" => f.descriptor \in DOMAIN Descriptors
      /\ f.type = "MESSAGE" \/ InOneof(f) => f.default_value = NULL
  BY <1>1, Zenon DEF Structured
<1>5. f.offset \notin Header /\ f.offset # f.quantifier_offset /\ f.offset # "descriptor"
  BY <1>3, <1>4, Zenon
<1> QED
  BY <1>2, <1>4, <1>5, Zenon DEF Laid

\* The same of a message's field, which shares slots with no other but in a oneof.
LEMMA Layout ==
    ASSUME NEW m, Headed(m), NEW i \in DOMAIN FieldsOf(m)
    PROVE  /\ Laid(FieldsOf(m)[i])
           /\ \A j \in DOMAIN FieldsOf(m) :
                 i # j => Apart(FieldsOf(m)[i], FieldsOf(m)[j]) /\ Apart(FieldsOf(m)[j], FieldsOf(m)[i])
<1>1. m.descriptor \in DOMAIN Descriptors
  BY Zenon DEF Headed
<1>2. Structured(FieldsOf(m))
  BY <1>1, LayoutAssumption, Zenon DEF FieldsOf
<1> QED
  BY <1>1, <1>2, LaidOut, Zenon DEF Structured, FieldsOf

\* A field holds what it held when its slots are as they were.
LEMMA HoldsSame ==
    ASSUME NEW d, NEW m, NEW x, NEW f, x.descriptor = m.descriptor,
           {f.offset, f.quantifier_offset} \subseteq DOMAIN x, x[f.offset] = m[f.offset], x[f.quantifier_offset] = m[f.quantifier_offset],
           Holds(d, m, f)
    PROVE  Holds(d, x, f)
<1>1. FieldsOf(x) = FieldsOf(m)
  BY Zenon DEF FieldsOf
<1>2. Held(x, f) = Held(m, f)
  BY Zenon DEF Held
<1>3. CaseGood(m, f) => CaseGood(x, f)
  BY <1>1, Zenon DEF CaseGood, Sharing
<1>4. SlotGood(x, f)
  BY <1>3, Zenon DEF Holds, SlotGood
<1> QED
  BY <1>2, <1>4, Zenon DEF Holds

\* A change in a field leaves the header.
LEMMA ChangedHeader ==
    ASSUME NEW m, NEW x, Headed(m), NEW i \in DOMAIN FieldsOf(m), Changes(m, x, FieldsOf(m)[i])
    PROVE  Headed(x) /\ x.descriptor = m.descriptor /\ FieldsOf(x) = FieldsOf(m)
<1> DEFINE f == FieldsOf(m)[i]
<1>1. f.offset \notin Header /\ f.quantifier_offset \notin Header \ {"descriptor"}
  BY Layout, Zenon DEF Laid
<1>2. Header \subseteq DOMAIN m /\ DOMAIN x = DOMAIN m
  BY Zenon DEF Headed, Changes
<1>3. \A s \in Header : x[s] = m[s]
  BY <1>1, <1>2, Zenon DEF Changes
<1>4. {"descriptor", "blk", "unknown_fields", "unknown"} = Header
  BY DEF Header
<1>5. /\ x["descriptor"] = m["descriptor"] /\ x["blk"] = m["blk"]
      /\ x["unknown_fields"] = m["unknown_fields"] /\ x["unknown"] = m["unknown"]
  BY <1>3, <1>4
<1>6. /\ x.descriptor = m.descriptor /\ x.blk = m.blk
      /\ x.unknown_fields = m.unknown_fields /\ x.unknown = m.unknown
  BY <1>5
<1> QED
  BY <1>2, <1>6, Zenon DEF Headed, FieldsOf

\* A message stays whole when one field changes, and the members of its oneof
\* hold with it.
LEMMA WholeChanged ==
    ASSUME NEW d, NEW m, NEW x, Whole(d, m), NEW i \in DOMAIN FieldsOf(m),
           Changes(m, x, FieldsOf(m)[i]),
           \A j \in DOMAIN FieldsOf(m) :
              j = i \/ FieldsOf(m)[j].offset = FieldsOf(m)[i].offset => Holds(d, x, FieldsOf(m)[j])
    PROVE  Whole(d, x)
<1> DEFINE f == FieldsOf(m)[i]
<1>1. Headed(m)
  BY Zenon DEF Whole
<1>2. Headed(x) /\ x.descriptor = m.descriptor /\ FieldsOf(x) = FieldsOf(m)
  BY <1>1, ChangedHeader, Zenon
<1>3. ASSUME NEW j \in DOMAIN FieldsOf(m), j # i, FieldsOf(m)[j].offset # f.offset
      PROVE  Holds(d, x, FieldsOf(m)[j])
  <2> DEFINE g == FieldsOf(m)[j]
  <2>1. Apart(f, g) /\ Apart(g, f)
    BY <1>1, <1>3, Layout, Zenon
  <2>2. g.offset \notin {f.offset, f.quantifier_offset}
    BY <1>3, <2>1, Zenon DEF Apart
  <2>3. g.quantifier_offset \notin {f.offset, f.quantifier_offset} \/ g.quantifier_offset = "descriptor"
    BY <1>3, <2>1, Zenon DEF Apart
  <2>4. Holds(d, m, g)
    BY Zenon DEF Whole
  <2>5. g.offset \in DOMAIN m /\ g.quantifier_offset \in DOMAIN m
    BY <2>4, Zenon DEF Holds, SlotGood
  <2>6. DOMAIN x = DOMAIN m /\ x[g.offset] = m[g.offset] /\ x[g.quantifier_offset] = m[g.quantifier_offset]
    BY <2>2, <2>3, <2>5, Zenon DEF Changes
  <2> QED
    BY <1>2, <2>4, <2>5, <2>6, HoldsSame, Zenon
<1> QED
  BY <1>2, <1>3, Zenon DEF Whole

\* The fields of a type, in whatever row.
RowsOf(t) == {Descriptors[t].fields[i] : i \in DOMAIN Descriptors[t].fields}

\* A message of type t.
OfType(d, t, m) == Whole(d, m) /\ m.descriptor = t

\* Wholeness, by the rows of the table.
LEMMA WholeRows ==
    ASSUME NEW d, NEW m
    PROVE  Whole(d, m) <=> Headed(m) /\ \A f \in RowsOf(m.descriptor) : Holds(d, m, f)
BY Zenon DEF Whole, RowsOf, FieldsOf

\* The layout of a row.
LEMMA RowLaid ==
    ASSUME NEW t \in DOMAIN Descriptors, NEW f \in RowsOf(t)
    PROVE  Laid(f) /\ f.id \in Int /\ f.id # 0
<1>1. Laid(f)
  BY LaidOut, Zenon DEF RowsOf
<1>2. f.id \in FieldNumbers
  BY <1>1, Zenon DEF Laid, IsField
<1> QED
  BY <1>1, <1>2 DEF FieldNumbers

\* Two rows share no slot but in a oneof.
LEMMA RowsApart ==
    ASSUME NEW t \in DOMAIN Descriptors, NEW f \in RowsOf(t), NEW g \in RowsOf(t), f # g
    PROVE  Apart(f, g)
BY LayoutAssumption, Zenon DEF RowsOf, Structured

\* A message changes in the slots of one field.
LEMMA RowChanged ==
    ASSUME NEW d, NEW t, NEW f \in RowsOf(t),
           NEW m, OfType(d, t, m), NEW x, Changes(m, x, f),
           \A g \in RowsOf(t) : g.offset = f.offset => Holds(d, x, g)
    PROVE  OfType(d, t, x)
<1>1. FieldsOf(m) = Descriptors[t].fields /\ Headed(m) /\ Whole(d, m) /\ m.descriptor = t
  BY Zenon DEF FieldsOf, Whole, OfType
<1>2. PICK i \in DOMAIN FieldsOf(m) : f = FieldsOf(m)[i]
  BY <1>1, Zenon DEF RowsOf
<1>3. Changes(m, x, FieldsOf(m)[i])
  BY <1>2, Zenon
<1>4. x.descriptor = m.descriptor
  BY <1>1, <1>3, ChangedHeader, Zenon
<1>5. \A j \in DOMAIN FieldsOf(m) :
         j = i \/ FieldsOf(m)[j].offset = FieldsOf(m)[i].offset => Holds(d, x, FieldsOf(m)[j])
  BY <1>1, <1>2, Zenon DEF RowsOf
<1>6. Whole(d, x)
  BY <1>1, <1>3, <1>5, WholeChanged, Zenon
<1> QED
  BY <1>1, <1>4, <1>6, Zenon DEF OfType

\* One in no oneof has its slots alone.
LEMMA RowAlone ==
    ASSUME NEW d, NEW t, NEW f \in RowsOf(t), ~ InOneof(f),
           NEW m, OfType(d, t, m), NEW x, Changes(m, x, f), Holds(d, x, f)
    PROVE  OfType(d, t, x)
<1>1. t \in DOMAIN Descriptors
  BY Zenon DEF Whole, Headed, OfType
<1>2. ASSUME NEW g \in RowsOf(t), g.offset = f.offset
      PROVE  Holds(d, x, g)
  <2>1. f = g
    BY <1>1, <1>2, RowsApart, Zenon DEF Apart
  <2> QED
    BY <2>1
<1> QED
  BY <1>2, RowChanged, Zenon

\* Both slots of a field, or only the one of its value.
LEMMA OffsetFirst ==
    ASSUME NEW m, NEW f, {f.offset, f.quantifier_offset} \subseteq DOMAIN m,
           f.offset # f.quantifier_offset, f.quantifier_offset # "descriptor",
           f.offset # "descriptor", NEW v, NEW q
    PROVE  LET x == [m EXCEPT ![f.offset] = v, ![f.quantifier_offset] = q]
           IN  Changes(m, x, f) /\ x[f.offset] = v /\ x[f.quantifier_offset] = q
BY DEF Changes

\* The same, the quantifier written first.
LEMMA QuantifierFirst ==
    ASSUME NEW m, NEW f, {f.offset, f.quantifier_offset} \subseteq DOMAIN m,
           f.offset # f.quantifier_offset, f.quantifier_offset # "descriptor",
           f.offset # "descriptor", NEW v, NEW q
    PROVE  LET x == [m EXCEPT ![f.quantifier_offset] = q, ![f.offset] = v]
           IN  Changes(m, x, f) /\ x[f.offset] = v /\ x[f.quantifier_offset] = q
BY DEF Changes

\* The value alone.
LEMMA ValueSlot ==
    ASSUME NEW m, NEW f, {f.offset, f.quantifier_offset} \subseteq DOMAIN m,
           f.offset # f.quantifier_offset, f.offset # "descriptor", NEW v
    PROVE  LET x == [m EXCEPT ![f.offset] = v]
           IN  /\ Changes(m, x, f) /\ x[f.offset] = v
               /\ x[f.quantifier_offset] = m[f.quantifier_offset]
BY DEF Changes

\* Or nothing.
LEMMA Unchanging ==
    ASSUME NEW m, NEW f
    PROVE  Changes(m, m, f)
BY DEF Changes

\* An array of good elements, or none.
ElementsGood(d, f, e) ==
    f.type = "MESSAGE" => \A k \in DOMAIN e : e[k] # NULL => Under(d, f, e[k][1])

\* What a repeated field holds.
LEMMA RepeatedHolds ==
    ASSUME NEW d, NEW x, NEW f, f.label = "REPEATED", ~ InOneof(f),
           {f.offset, f.quantifier_offset} \subseteq DOMAIN x
    PROVE  Holds(d, x, f) <=> /\ x[f.quantifier_offset] \in Nat
                              /\ ElementsGood(d, f, Elements(x[f.quantifier_offset], x[f.offset]))
<1>1. Held(x, f) = Elements(x[f.quantifier_offset], x[f.offset])
  BY Zenon DEF Held
<1> QED
  BY <1>1, Zenon DEF Holds, SlotGood, ElementsGood

\* No element is one that could be wrong.
LEMMA NoElements ==
    ASSUME NEW d, NEW f, NEW array
    PROVE  0 \in Nat /\ ElementsGood(d, f, Elements(0, array))
<1>1. DOMAIN Elements(0, array) = 1..0 /\ 0 \in Nat
  BY DEF Elements
<1>2. \A k \in 1..0 : FALSE
  OBVIOUS
<1> QED
  BY <1>1, <1>2, Zenon DEF ElementsGood

\* All of two arrays, in a new one.
LEMMA ElementsJoined ==
    ASSUME NEW d, NEW f, NEW n \in Nat, NEW m \in Nat, NEW a, NEW b,
           ElementsGood(d, f, Elements(n, a)), ElementsGood(d, f, Elements(m, b)),
           NEW blk, NEW cap
    PROVE  LET all == Elements(n, a) \o Elements(m, b)
           IN  Len(all) \in Nat /\ ElementsGood(d, f, Elements(Len(all), <<Array(blk, cap, all)>>))
<1> DEFINE r == Elements(n, a)
           s == Elements(m, b)
           V == {r[k] : k \in 1..n} \cup {s[k] : k \in 1..m}
           all == r \o s
<1>1. r \in [1..n -> V] /\ s \in [1..m -> V]
  BY DEF Elements
<1> HIDE DEF r, s, V
<1>2. r \in Seq(V) /\ s \in Seq(V) /\ Len(r) = n /\ Len(s) = m
  BY <1>1
<1>3. Len(all) = n + m /\ \A k \in 1..(n + m) : all[k] = IF k <= n THEN r[k] ELSE s[k - n]
  BY <1>2
<1>4. DOMAIN r = 1..n /\ DOMAIN s = 1..m
  BY <1>1
<1> HIDE DEF all
<1>5. ASSUME NEW k \in 1..(n + m)
      PROVE  (k \in 1..n /\ all[k] = r[k]) \/ (k - n \in 1..m /\ all[k] = s[k - n])
  BY <1>3
<1>6. ElementsGood(d, f, r) /\ ElementsGood(d, f, s)
  BY DEF r, s
<1>7. ASSUME f.type = "MESSAGE", NEW k \in 1..(n + m), all[k] # NULL
      PROVE  Under(d, f, all[k][1])
  BY <1>4, <1>5, <1>6, <1>7, Zenon DEF ElementsGood
<1> DEFINE new == Elements(Len(all), <<Array(blk, cap, all)>>)
<1>8. DOMAIN new = 1..(n + m) /\ \A k \in 1..(n + m) : new[k] = all[k]
  BY <1>3 DEF Elements, Array
<1> HIDE DEF new
<1>9. ElementsGood(d, f, new)
  BY <1>7, <1>8, Zenon DEF ElementsGood
<1>10. Len(all) \in Nat
  BY <1>3
<1> QED
  BY <1>9, <1>10 DEF new, all, r, s

\* A field with one value.
LEMMA SingularHolds ==
    ASSUME NEW d, NEW x, NEW f, f.label # "REPEATED", ~ InOneof(f),
           {f.offset, f.quantifier_offset} \subseteq DOMAIN x
    PROVE  Holds(d, x, f) <=> (f.type = "MESSAGE" /\ x[f.offset] # NULL => Under(d, f, x[f.offset][1]))
<1>1. Held(x, f) = <<x[f.offset]>>
  BY Zenon DEF Held
<1>2. DOMAIN <<x[f.offset]>> = {1} /\ <<x[f.offset]>>[1] = x[f.offset]
  OBVIOUS
<1> QED
  BY <1>1, <1>2, Zenon DEF Holds, SlotGood

\* A member of a oneof is there when its number is the case.
LEMMA MemberHolds ==
    ASSUME NEW d, NEW x, NEW f, InOneof(f), f.label \in {"OPTIONAL", "NONE"},
           {f.offset, f.quantifier_offset} \subseteq DOMAIN x
    PROVE  Holds(d, x, f) <=>
              /\ CaseGood(x, f)
              /\ f.type = "MESSAGE" /\ x[f.quantifier_offset] = f.id /\ x[f.offset] # NULL
                    => Under(d, f, x[f.offset][1])
<1>1. Held(x, f) = IF x[f.quantifier_offset] # f.id THEN <<>> ELSE <<x[f.offset]>>
  BY Zenon DEF Held
<1>2. DOMAIN <<x[f.offset]>> = {1} /\ <<x[f.offset]>>[1] = x[f.offset] /\ DOMAIN <<>> = {}
  OBVIOUS
<1>3. SlotGood(x, f) <=> CaseGood(x, f)
  BY Zenon DEF SlotGood
<1>4. CASE x[f.quantifier_offset] = f.id
  BY <1>1, <1>2, <1>3, <1>4, Zenon DEF Holds
<1>5. CASE x[f.quantifier_offset] # f.id
  BY <1>1, <1>2, <1>3, <1>5, Zenon DEF Holds
<1> QED
  BY <1>4, <1>5

\* What a look for a number finds: its row, or nothing.
LEMMA RowOfNumber ==
    ASSUME NEW t \in DOMAIN Descriptors, NEW number \in Int
    PROVE  LET fields == Descriptors[t].fields
               r == int_range_lookup(Descriptors[t].field_ranges, number)
           IN  /\ \/ r = -1 /\ \A i \in DOMAIN fields : fields[i].id # number
                  \/ \E i \in DOMAIN fields : fields[i].id = number /\ r = i - 1
               /\ \A i, j \in DOMAIN fields : fields[i].id = number /\ fields[j].id = number => i = j
<1> DEFINE desc == Descriptors[t]
           fields == desc.fields
           M == Len(fields)
           ids == [k \in DOMAIN fields |-> fields[k].id]
           r == int_range_lookup(desc.field_ranges, number)
           rows == Named(ids, M, number)
<1>1. M \in Nat /\ DOMAIN fields = 1..M
  BY FieldRows, Zenon
<1>2. Ranges(desc.field_ranges, ids)
  BY TablesAssumption, Zenon DEF TableOf
<1>3. DOMAIN ids = 1..M /\ Len(ids) = M
  BY <1>1
<1>4. Found(r, rows, FromZero(M)) /\ Sole(ids, M, number)
  BY <1>1, <1>2, <1>3, LookedUp, Zenon
<1>5. \A k \in 1..M : ids[k] = fields[k].id /\ FromZero(M)[k] = k - 1
  BY <1>1 DEF FromZero
<1> HIDE DEF M, ids, r, fields
<1>6. \A k : k \in rows <=> k \in 1..M /\ fields[k].id = number
  BY <1>5, Zenon DEF Named
<1>7. (r = -1 /\ rows = {}) \/ \E k \in rows : r = FromZero(M)[k]
  BY <1>4 DEF Found
<1>8. (r = -1 /\ (\A i \in 1..M : fields[i].id # number)) \/ \E i \in 1..M : fields[i].id = number /\ r = i - 1
  BY <1>5, <1>6, <1>7, Zenon
<1>9. \A i, j \in 1..M : fields[i].id = number /\ fields[j].id = number => i = j
  BY <1>4, <1>5, Zenon DEF Sole
<1> QED
  BY <1>1, <1>8, <1>9 DEF r, fields

\* get_field returns the row of the number, or none when there is none.
LEMMA GetField ==
    ASSUME NEW t \in DOMAIN Descriptors, NEW number \in Int
    PROVE  LET fields == Descriptors[t].fields
               found == get_field(Descriptors[t], number)
           IN  /\ \/ found = NULL
                  \/ \E i \in DOMAIN fields : fields[i].id = number /\ found = <<fields[i]>>
               /\ \A i \in DOMAIN fields : fields[i].id = number => found = <<fields[i]>>
<1> DEFINE fields == Descriptors[t].fields
           r == int_range_lookup(Descriptors[t].field_ranges, number)
<1>1. get_field(Descriptors[t], number) = IF r < 0 THEN NULL ELSE <<fields[r + 1]>>
  BY Zenon DEF get_field
<1>2. DOMAIN fields = 1..Len(fields) /\ Len(fields) \in Nat
  BY FieldRows, Zenon
<1>3. /\ \/ r = -1 /\ \A i \in DOMAIN fields : fields[i].id # number
         \/ \E i \in DOMAIN fields : fields[i].id = number /\ r = i - 1
      /\ \A i, j \in DOMAIN fields : fields[i].id = number /\ fields[j].id = number => i = j
  BY RowOfNumber, Zenon
<1> HIDE DEF r, fields
<1>4. CASE r = -1 /\ \A i \in DOMAIN fields : fields[i].id # number
  <2>1. r < 0
    BY <1>4
  <2> QED
    BY <1>1, <1>4, <2>1, Zenon DEF fields
<1>5. ASSUME NEW i \in DOMAIN fields, fields[i].id = number, r = i - 1
      PROVE  /\ fields[i].id = number /\ get_field(Descriptors[t], number) = <<fields[i]>>
             /\ \A j \in DOMAIN fields : fields[j].id = number => j = i
  <2>1. ~ (r < 0) /\ r + 1 = i
    BY <1>2, <1>5
  <2> QED
    BY <1>1, <1>3, <1>5, <2>1, Zenon
<1> QED
  BY <1>3, <1>4, <1>5, Zenon DEF fields

-----------------------------------------------------------------------------
(* Merging. *)

IsMerge(s) == s = [ok |-> s.ok, em |-> s.em, lm |-> s.lm, h |-> s.h]
MergeGood(d, t, s) ==
    /\ IsMerge(s) /\ s.ok \in BOOLEAN /\ s.h \in Heaps
    /\ OfType(d, t, s.em)
    /\ OfType(d, t, s.lm)
\* From s to r, by what merge_field does for field f.
MergeStep(d, t, f, s, r) ==
    /\ MergeGood(d, t, r) /\ Honest(s.h, r.ok, r.h) /\ (r.ok => s.ok)
    /\ Changes(s.em, r.em, f) /\ Changes(s.lm, r.lm, f)

\* A step that does nothing tells of no failure.
LEMMA HonestSame ==
    ASSUME NEW h \in Heaps
    PROVE  \A ok \in BOOLEAN : Honest(h, ok, h)
BY KeptSame, StillGoes, Zenon

\* A field that needs no merging.
LEMMA MergeNothing ==
    ASSUME NEW d, NEW t, NEW f, NEW s, MergeGood(d, t, s)
    PROVE  MergeStep(d, t, f, s, s)
BY HonestSame, Unchanging, Zenon DEF MergeGood, MergeStep

\* Both messages change in the slots of a field that is in no oneof.
LEMMA MergeAlone ==
    ASSUME NEW d, NEW t, NEW f \in RowsOf(t), ~ InOneof(f),
           NEW s, MergeGood(d, t, s), NEW r, IsMerge(r),
           Honest(s.h, r.ok, r.h), r.ok => s.ok,
           Changes(s.em, r.em, f), Changes(s.lm, r.lm, f), Holds(d, r.em, f), Holds(d, r.lm, f)
    PROVE  MergeStep(d, t, f, s, r)
<1>1. /\ OfType(d, t, s.em)
      /\ OfType(d, t, s.lm)
  BY Zenon DEF MergeGood
<1>2. OfType(d, t, r.em)
  BY <1>1, RowAlone, Zenon
<1>3. OfType(d, t, r.lm)
  BY <1>1, RowAlone, Zenon
<1>4. r.ok \in BOOLEAN /\ r.h \in Heaps
  BY DEF Honest
<1> QED
  BY <1>2, <1>3, <1>4, Zenon DEF MergeStep, MergeGood

\* The slots of a field, in both messages.
LEMMA MergeSlots ==
    ASSUME NEW d, NEW t, NEW f \in RowsOf(t), NEW s, MergeGood(d, t, s)
    PROVE  /\ {f.offset, f.quantifier_offset} \subseteq DOMAIN s.em /\ Holds(d, s.em, f)
           /\ {f.offset, f.quantifier_offset} \subseteq DOMAIN s.lm /\ Holds(d, s.lm, f)
           /\ Laid(f) /\ t \in DOMAIN Descriptors
<1>1. /\ OfType(d, t, s.em) /\ Headed(s.em)
      /\ OfType(d, t, s.lm) /\ Headed(s.lm)
  BY Zenon DEF MergeGood, Whole, OfType
<1>2. Holds(d, s.em, f) /\ Holds(d, s.lm, f)
  BY <1>1, WholeRows, Zenon DEF OfType
<1>3. t \in DOMAIN Descriptors
  BY <1>1, Zenon DEF Headed, OfType
<1> QED
  BY <1>2, <1>3, RowLaid, Zenon DEF Holds, SlotGood

\* Repeated fields: the elements of both go to the latter.
LEMMA RepeatedMerged ==
    ASSUME NEW d, NEW t, NEW f \in RowsOf(t), f.label = "REPEATED",
           NEW s, MergeGood(d, t, s), s.ok
    PROVE  MergeStep(d, t, f, s, merge_repeated(f, s))
<1> DEFINE q == f.quantifier_offset
           o == f.offset
           r == merge_repeated(f, s)
<1>1. /\ {o, q} \subseteq DOMAIN s.em /\ Holds(d, s.em, f)
      /\ {o, q} \subseteq DOMAIN s.lm /\ Holds(d, s.lm, f)
      /\ Laid(f) /\ t \in DOMAIN Descriptors
  BY MergeSlots
<1>2. o # q /\ q # "descriptor" /\ o # "descriptor" /\ ~ InOneof(f)
  <2>1. o # q /\ q # "descriptor" /\ o # "descriptor"
    BY <1>1, Zenon DEF Laid
  <2>2. InOneof(f) => f.label \in {"OPTIONAL", "NONE"}
    BY <1>1, Zenon DEF Laid
  <2> QED
    BY <2>1, <2>2
<1>3. IsMerge(s) /\ s.h \in Heaps /\ s.ok = TRUE
  BY Zenon DEF MergeGood
<1>4. /\ s.em[q] \in Nat /\ ElementsGood(d, f, Elements(s.em[q], s.em[o]))
      /\ s.lm[q] \in Nat /\ ElementsGood(d, f, Elements(s.lm[q], s.lm[o]))
  BY <1>1, <1>2, RepeatedHolds, Zenon
<1>5. ASSUME NEW em, NEW lm, NEW h, NEW eq, NEW eo, NEW lq, NEW lo,
             Changes(s.em, em, f) /\ em[o] = eo /\ em[q] = eq,
             Changes(s.lm, lm, f) /\ lm[o] = lo /\ lm[q] = lq,
             Honest(s.h, TRUE, h),
             eq \in Nat /\ ElementsGood(d, f, Elements(eq, eo)),
             lq \in Nat /\ ElementsGood(d, f, Elements(lq, lo)),
             NEW x, x = [ok |-> TRUE, em |-> em, lm |-> lm, h |-> h]
      PROVE  MergeStep(d, t, f, s, x)
  <2>1. x.ok = TRUE /\ x.em = em /\ x.lm = lm /\ x.h = h
    BY <1>5
  <2>2. IsMerge(x)
    BY <1>5, <2>1, Zenon DEF IsMerge
  <2>3. {o, q} \subseteq DOMAIN em /\ {o, q} \subseteq DOMAIN lm
    BY <1>1, <1>5, Zenon DEF Changes
  <2>4. Holds(d, em, f) /\ Holds(d, lm, f)
    BY <1>2, <1>5, <2>3, RepeatedHolds, Zenon
  <2> QED
    BY <1>1, <1>2, <1>3, <1>5, <2>1, <2>2, <2>4, MergeAlone, Zenon
<1>6. CASE s.em[q] = 0
  <2>1. r = s
    BY <1>6, Zenon DEF merge_repeated
  <2> QED
    BY <2>1, MergeNothing, Zenon
<1>7. CASE s.em[q] # 0 /\ s.lm[q] = 0
  <2> DEFINE em == [s.em EXCEPT ![q] = 0, ![o] = NULL]
             lm == [s.lm EXCEPT ![q] = s.em[q], ![o] = s.em[o]]
  <2>1. r = [s EXCEPT !.lm[q] = s.em[q], !.lm[o] = s.em[o], !.em[q] = 0, !.em[o] = NULL]
    BY <1>7, Zenon DEF merge_repeated
  <2>2. r = [ok |-> TRUE, em |-> em, lm |-> lm, h |-> s.h]
    BY <1>3, <2>1 DEF IsMerge
  <2>3. Changes(s.em, em, f) /\ em[o] = NULL /\ em[q] = 0
    BY <1>1, <1>2, QuantifierFirst, Zenon
  <2>4. Changes(s.lm, lm, f) /\ lm[o] = s.em[o] /\ lm[q] = s.em[q]
    BY <1>1, <1>2, QuantifierFirst, Zenon
  <2> HIDE DEF em, lm
  <2> QED
    BY <1>3, <1>4, <1>5, <2>2, <2>3, <2>4, NoElements, HonestSame, Zenon
<1>8. CASE s.em[q] # 0 /\ s.lm[q] # 0
  <2> DEFINE new == do_alloc(s.h)
             all == Elements(s.em[q], s.em[o]) \o Elements(s.lm[q], s.lm[o])
             array == <<Array(new.ptr, Len(all), all)>>
             h == do_free(do_free(new.h, s.lm[o][1].blk), s.em[o][1].blk)
             em == [s.em EXCEPT ![q] = 0, ![o] = NULL]
             lm == [s.lm EXCEPT ![q] = Len(all), ![o] = array]
  <2>1. r = IF new.ptr = 0 THEN [s EXCEPT !.ok = FALSE, !.h = new.h]
            ELSE [s EXCEPT !.em[q] = 0, !.em[o] = NULL, !.lm[q] = Len(all), !.lm[o] = array, !.h = h]
    BY <1>8, Zenon DEF merge_repeated, merge_arrays
  <2>2. Honest(s.h, new.ptr # 0, new.h)
    BY <1>3, AllocGoes, Zenon
  <2>3. Len(all) \in Nat /\ ElementsGood(d, f, Elements(Len(all), array))
    <3> DEFINE n == s.em[q]
               m == s.lm[q]
               a == s.em[o]
               b == s.lm[o]
    <3>1. n \in Nat /\ m \in Nat /\ ElementsGood(d, f, Elements(n, a)) /\ ElementsGood(d, f, Elements(m, b))
      BY <1>4
    <3> HIDE DEF n, m, a, b
    <3>2. LET e == Elements(n, a) \o Elements(m, b)
          IN  Len(e) \in Nat /\ ElementsGood(d, f, Elements(Len(e), <<Array(new.ptr, Len(e), e)>>))
      BY <3>1, ElementsJoined
    <3> QED
      BY <3>2 DEF n, m, a, b
  <2>4. new.h \in Heaps
    BY <2>2, Zenon DEF Honest
  <2>5. Kept(new.h, h)
    <3>1. Kept(new.h, do_free(new.h, s.lm[o][1].blk))
      BY <2>4, FreeKept, Zenon
    <3>2. Kept(do_free(new.h, s.lm[o][1].blk), h)
      BY <3>1, FreeKept, Zenon DEF Kept
    <3> QED
      BY <3>1, <3>2, KeptBoth, Zenon
  <2> HIDE DEF new, all, array, h
  <2>6. CASE new.ptr = 0
    <3>1. r = [ok |-> FALSE, em |-> s.em, lm |-> s.lm, h |-> new.h]
      BY <1>3, <2>1, <2>6 DEF IsMerge
    <3>2. r.ok = FALSE /\ r.em = s.em /\ r.lm = s.lm /\ r.h = new.h
      BY <3>1
    <3>3. IsMerge(r) /\ Honest(s.h, FALSE, new.h)
      BY <2>2, <2>6, <3>1, <3>2, Zenon DEF IsMerge, Honest
    <3> QED
      BY <1>1, <1>2, <3>2, <3>3, MergeAlone, Unchanging, Zenon
  <2>7. CASE new.ptr # 0
    <3>1. r = [ok |-> TRUE, em |-> em, lm |-> lm, h |-> h]
      BY <1>3, <2>1, <2>7 DEF IsMerge
    <3>2. Changes(s.em, em, f) /\ em[o] = NULL /\ em[q] = 0
      BY <1>1, <1>2, QuantifierFirst, Zenon
    <3>3. Changes(s.lm, lm, f) /\ lm[o] = array /\ lm[q] = Len(all)
      BY <1>1, <1>2, QuantifierFirst, Zenon
    <3>4. Honest(s.h, TRUE, new.h)
      BY <2>2, <2>7 DEF Honest
    <3>5. Honest(s.h, TRUE, h)
      BY <1>3, <2>5, <3>4, KeptGoes, Zenon
    <3> HIDE DEF em, lm
    <3> QED
      BY <1>5, <2>3, <3>1, <3>2, <3>3, <3>5, NoElements, Zenon
  <2> QED
    BY <2>6, <2>7
<1> QED
  BY <1>6, <1>7, <1>8

\* What merging the submessages does.
MergesUnder(merged, d, em, lm) ==
    \A x \in Submessages(em), y \in Submessages(lm), g \in Heaps :
        x.descriptor = y.descriptor /\ d # 0 /\ Whole(d - 1, x) /\ Whole(d - 1, y) =>
            /\ MergeGood(d - 1, x.descriptor, merged[x][y][g])
            /\ Honest(g, merged[x][y][g].ok, merged[x][y][g].h)

\* A submessage is whole on one level less.
LEMMA UnderWhole ==
    ASSUME NEW d \in 0..MaxNesting, NEW f, NEW x
    PROVE  Under(d, f, x) <=> d # 0 /\ Whole(d - 1, x) /\ x.descriptor = f.descriptor
<1>1. d # 0 => d - 1 \in 0..MaxNesting
  BY NestingAssumption
<1>2. d >= 1 <=> d # 0
  BY NestingAssumption
<1> QED
  BY <1>1, <1>2, DeepWhole, Zenon DEF Under

\* A field in no oneof: both submessages are merged, or the element moves.
LEMMA SingularMerged ==
    ASSUME NEW merged, NEW d \in 0..MaxNesting, NEW t, NEW f \in RowsOf(t),
           f.label # "REPEATED", ~ InOneof(f),
           NEW s, MergeGood(d, t, s), s.ok, NEW em, NEW lm, MergesUnder(merged, d, em, lm),
           f.type = "MESSAGE" /\ s.em[f.offset] # NULL => s.em[f.offset][1] \in Submessages(em),
           f.type = "MESSAGE" /\ s.lm[f.offset] # NULL => s.lm[f.offset][1] \in Submessages(lm)
    PROVE  MergeStep(d, t, f, s, merge_singular(merged, f, s))
<1> DEFINE q == f.quantifier_offset
           o == f.offset
           r == merge_singular(merged, f, s)
           Fits2(v) == f.type = "MESSAGE" /\ v # NULL => Under(d, f, v[1])
<1>1. /\ {o, q} \subseteq DOMAIN s.em /\ Holds(d, s.em, f)
      /\ {o, q} \subseteq DOMAIN s.lm /\ Holds(d, s.lm, f)
      /\ Laid(f) /\ t \in DOMAIN Descriptors
  BY MergeSlots
<1>2. o # q /\ o # "descriptor"
  BY <1>1, Zenon DEF Laid
<1>3. IsMerge(s) /\ s.h \in Heaps /\ s.ok = TRUE
  BY Zenon DEF MergeGood
<1>4. Fits2(s.em[o]) /\ Fits2(s.lm[o])
  BY <1>1, SingularHolds, Zenon
<1>5. ASSUME NEW e, NEW l, NEW h, NEW ok, NEW eo, NEW lo, Changes(s.em, e, f) /\ e[o] = eo,
             Changes(s.lm, l, f) /\ l[o] = lo, Honest(s.h, ok, h), Fits2(eo), Fits2(lo),
             NEW x, x = [ok |-> ok, em |-> e, lm |-> l, h |-> h]
      PROVE  MergeStep(d, t, f, s, x)
  <2>1. x.ok = ok /\ x.em = e /\ x.lm = l /\ x.h = h
    BY <1>5
  <2>2. IsMerge(x)
    BY <1>5, <2>1, Zenon DEF IsMerge
  <2>3. {o, q} \subseteq DOMAIN e /\ {o, q} \subseteq DOMAIN l
    BY <1>1, <1>5, Zenon DEF Changes
  <2>4. Holds(d, e, f) /\ Holds(d, l, f)
    BY <1>5, <2>3, SingularHolds, Zenon
  <2> QED
    BY <1>1, <1>3, <1>5, <2>1, <2>2, <2>4, MergeAlone, Zenon
<1>6. CASE f.type = "MESSAGE" /\ s.em[o] # NULL /\ s.lm[o] # NULL
  <2> DEFINE x == s.em[o][1]
             y == s.lm[o][1]
             sub == merged[x][y][s.h]
             e == [s.em EXCEPT ![o] = <<sub.em>>]
             l == [s.lm EXCEPT ![o] = <<sub.lm>>]
  <2>1. r = [s EXCEPT !.ok = sub.ok, !.h = sub.h, !.em[o] = <<sub.em>>, !.lm[o] = <<sub.lm>>]
    BY <1>6, Zenon DEF merge_singular, MergedSub
  <2>2. /\ d # 0 /\ Whole(d - 1, x) /\ x.descriptor = f.descriptor
        /\ Whole(d - 1, y) /\ y.descriptor = f.descriptor
    <3>1. Under(d, f, x) /\ Under(d, f, y)
      BY <1>4, <1>6
    <3> HIDE DEF x, y
    <3>2. \A z : Under(d, f, z) => d # 0 /\ Whole(d - 1, z) /\ z.descriptor = f.descriptor
      BY UnderWhole
    <3> QED
      BY <3>1, <3>2, Zenon
  <2>3. MergeGood(d - 1, f.descriptor, sub) /\ Honest(s.h, sub.ok, sub.h)
    BY <1>3, <1>6, <2>2, Zenon DEF MergesUnder
  <2> HIDE DEF sub
  <2>4. Under(d, f, sub.em) /\ Under(d, f, sub.lm)
    BY <2>2, <2>3, UnderWhole, Zenon DEF MergeGood, OfType
  <2>5. Fits2(<<sub.em>>) /\ Fits2(<<sub.lm>>)
    <3>1. <<sub.em>>[1] = sub.em /\ <<sub.lm>>[1] = sub.lm
      OBVIOUS
    <3> QED
      BY <2>4, <3>1, Zenon
  <2>6. r = [ok |-> sub.ok, em |-> e, lm |-> l, h |-> sub.h]
    BY <1>3, <2>1 DEF IsMerge
  <2>7. Changes(s.em, e, f) /\ e[o] = <<sub.em>> /\ Changes(s.lm, l, f) /\ l[o] = <<sub.lm>>
    BY <1>1, <1>2, ValueSlot, Zenon
  <2> HIDE DEF e, l
  <2> QED
    BY <1>5, <2>3, <2>5, <2>6, <2>7, Zenon
<1>7. CASE ~ (f.type = "MESSAGE" /\ s.em[o] # NULL /\ s.lm[o] # NULL)
           /\ ~ need_to_merge(f, s, s.em[o], s.lm[o])
  <2>1. r = s
    BY <1>7, Zenon DEF merge_singular
  <2> QED
    BY <2>1, MergeNothing, Zenon
<1>8. CASE ~ (f.type = "MESSAGE" /\ s.em[o] # NULL /\ s.lm[o] # NULL)
           /\ need_to_merge(f, s, s.em[o], s.lm[o])
  <2>1. r = move_element(f, s)
    BY <1>8, Zenon DEF merge_singular
  <2>2. Fits2(Zero(f))
    BY DEF Zero, Pointer
  <2>3. Honest(s.h, TRUE, s.h)
    BY <1>3, HonestSame, Zenon
  <2> HIDE DEF r
  <2>4. CASE q = "descriptor"
    <3> DEFINE e == [s.em EXCEPT ![o] = Zero(f)]
               l == [s.lm EXCEPT ![o] = s.em[o]]
    <3>1. r = [s EXCEPT !.lm[o] = s.em[o], !.em[o] = Zero(f)]
      BY <2>1, <2>4, Zenon DEF move_element
    <3>2. r = [ok |-> TRUE, em |-> e, lm |-> l, h |-> s.h]
      BY <1>3, <3>1 DEF IsMerge
    <3>3. Changes(s.em, e, f) /\ e[o] = Zero(f) /\ Changes(s.lm, l, f) /\ l[o] = s.em[o]
      BY <1>1, <1>2, ValueSlot, Zenon
    <3> HIDE DEF e, l
    <3> QED
      BY <1>4, <1>5, <2>2, <2>3, <3>2, <3>3, Zenon DEF r
  <2>5. CASE q # "descriptor"
    <3> DEFINE e == [s.em EXCEPT ![o] = Zero(f), ![q] = ZeroQuantifier(f)]
               l == [s.lm EXCEPT ![o] = s.em[o], ![q] = s.em[q]]
    <3>1. r = [[s EXCEPT !.lm[o] = s.em[o], !.em[o] = Zero(f)]
                  EXCEPT !.lm[q] = s.em[q], !.em[q] = ZeroQuantifier(f)]
      BY <2>1, <2>5, Zenon DEF move_element
    <3>2. r = [ok |-> TRUE, em |-> e, lm |-> l, h |-> s.h]
      BY <1>3, <3>1 DEF IsMerge
    <3>3. Changes(s.em, e, f) /\ e[o] = Zero(f) /\ Changes(s.lm, l, f) /\ l[o] = s.em[o]
      BY <1>1, <1>2, <2>5, OffsetFirst, Zenon
    <3> HIDE DEF e, l
    <3> QED
      BY <1>4, <1>5, <2>2, <2>3, <3>2, <3>3, Zenon DEF r
  <2> QED
    BY <2>4, <2>5 DEF r
<1> QED
  BY <1>6, <1>7, <1>8

\* The members of a oneof have their slots in common.
LEMMA MembersShare ==
    ASSUME NEW t \in DOMAIN Descriptors, NEW f \in RowsOf(t), InOneof(f),
           NEW g \in RowsOf(t), g.offset = f.offset
    PROVE  /\ InOneof(g) /\ g.quantifier_offset = f.quantifier_offset
           /\ g.label \in {"OPTIONAL", "NONE"} /\ g.id # 0
<1>1. InOneof(g) /\ g.quantifier_offset = f.quantifier_offset
  <2>1. CASE f = g
    BY <2>1
  <2>2. CASE f # g
    <3>1. Apart(g, f)
      BY <2>2, RowsApart
    <3> QED
      BY <3>1, Zenon DEF Apart
  <2> QED
    BY <2>1, <2>2
<1>2. Laid(g) /\ g.id # 0
  BY RowLaid, Zenon
<1> QED
  BY <1>1, <1>2, Zenon DEF Laid

\* A member of a oneof is taken out of a message.
LEMMA MemberLeaves ==
    ASSUME NEW d, NEW t \in DOMAIN Descriptors, NEW f \in RowsOf(t), InOneof(f),
           NEW m, OfType(d, t, m), {f.offset, f.quantifier_offset} \subseteq DOMAIN m,
           NEW e, Changes(m, e, f), e[f.offset] = NULL, e[f.quantifier_offset] = 0
    PROVE  OfType(d, t, e)
<1>1. ASSUME NEW g \in RowsOf(t), g.offset = f.offset
      PROVE  Holds(d, e, g)
  <2>1. /\ InOneof(g) /\ g.quantifier_offset = f.quantifier_offset
        /\ g.label \in {"OPTIONAL", "NONE"} /\ g.id # 0
    BY <1>1, MembersShare, Zenon
  <2>2. {g.offset, g.quantifier_offset} \subseteq DOMAIN e
    BY <1>1, <2>1, Zenon DEF Changes
  <2>3. CaseGood(e, g) /\ e[g.quantifier_offset] # g.id
    BY <1>1, <2>1, Zenon DEF CaseGood
  <2> QED
    BY <2>1, <2>2, <2>3, MemberHolds, Zenon
<1> QED
  BY <1>1, RowChanged, Zenon

\* A message takes over a oneof of another of its type.
LEMMA MemberTaken ==
    ASSUME NEW d, NEW t \in DOMAIN Descriptors, NEW f \in RowsOf(t), InOneof(f),
           NEW m, OfType(d, t, m), NEW k, OfType(d, t, k),
           {f.offset, f.quantifier_offset} \subseteq DOMAIN m,
           NEW l, Changes(m, l, f), l[f.offset] = k[f.offset],
           l[f.quantifier_offset] = k[f.quantifier_offset]
    PROVE  OfType(d, t, l)
<1>1. l.descriptor = k.descriptor /\ l.descriptor = t
  <2>1. FieldsOf(m) = Descriptors[t].fields /\ Headed(m)
    BY Zenon DEF FieldsOf, Whole, OfType
  <2>2. PICK i \in DOMAIN FieldsOf(m) : f = FieldsOf(m)[i]
    BY <2>1, Zenon DEF RowsOf
  <2>3. l.descriptor = m.descriptor
    BY <2>1, <2>2, ChangedHeader, Zenon
  <2> QED
    BY <2>3, Zenon DEF OfType
<1>2. ASSUME NEW g \in RowsOf(t), g.offset = f.offset
      PROVE  Holds(d, l, g)
  <2>1. g.quantifier_offset = f.quantifier_offset
    BY <1>2, MembersShare, Zenon
  <2>2. {g.offset, g.quantifier_offset} \subseteq DOMAIN l
    BY <1>2, <2>1, Zenon DEF Changes
  <2>3. Holds(d, k, g)
    BY WholeRows, Zenon DEF OfType
  <2>4. l[g.offset] = k[g.offset] /\ l[g.quantifier_offset] = k[g.quantifier_offset]
    BY <1>2, <2>1
  <2> QED
    BY <1>1, <2>2, <2>3, <2>4, HoldsSame, Zenon
<1> QED
  BY <1>2, RowChanged, Zenon

\* A member of a oneof moves to a message that has none.
LEMMA OneofMoved ==
    ASSUME NEW d, NEW t \in DOMAIN Descriptors, NEW f \in RowsOf(t), InOneof(f),
           NEW s, MergeGood(d, t, s), s.ok
    PROVE  LET o == f.offset
               q == f.quantifier_offset
           IN  MergeStep(d, t, f, s,
                   [ok |-> TRUE, em |-> [s.em EXCEPT ![o] = NULL, ![q] = 0],
                    lm |-> [s.lm EXCEPT ![o] = s.em[o], ![q] = s.em[q]], h |-> s.h])
<1> DEFINE o == f.offset
           q == f.quantifier_offset
           e == [s.em EXCEPT ![o] = NULL, ![q] = 0]
           l == [s.lm EXCEPT ![o] = s.em[o], ![q] = s.em[q]]
           r == [ok |-> TRUE, em |-> e, lm |-> l, h |-> s.h]
<1>1. /\ {o, q} \subseteq DOMAIN s.em /\ {o, q} \subseteq DOMAIN s.lm /\ Laid(f)
  BY MergeSlots
<1>2. o # q /\ q # "descriptor" /\ o # "descriptor"
  BY <1>1, Zenon DEF Laid
<1>3. /\ s.h \in Heaps /\ s.ok = TRUE
      /\ OfType(d, t, s.em) /\ OfType(d, t, s.lm)
  BY Zenon DEF MergeGood
<1>4. Changes(s.em, e, f) /\ e[o] = NULL /\ e[q] = 0
  BY <1>1, <1>2, OffsetFirst, Zenon
<1>5. Changes(s.lm, l, f) /\ l[o] = s.em[o] /\ l[q] = s.em[q]
  BY <1>1, <1>2, OffsetFirst, Zenon
<1> HIDE DEF e, l
<1>6. OfType(d, t, e)
  BY <1>1, <1>3, <1>4, MemberLeaves
<1>7. OfType(d, t, l)
  BY <1>1, <1>3, <1>5, MemberTaken
<1>8. r.ok = TRUE /\ r.em = e /\ r.lm = l /\ r.h = s.h
  OBVIOUS
<1>9. IsMerge(r) /\ Honest(s.h, TRUE, s.h)
  BY <1>3, <1>8, HonestSame, Zenon DEF IsMerge
<1> HIDE DEF r
<1>10. MergeStep(d, t, f, s, r)
  BY <1>3, <1>4, <1>5, <1>6, <1>7, <1>8, <1>9, Zenon DEF MergeStep, MergeGood
<1> QED
  BY <1>10 DEF r, e, l

\* The message has no member of the oneof yet: that of the earlier one moves.
LEMMA OneofMerged ==
    ASSUME NEW merged, NEW d, NEW t, NEW f \in RowsOf(t), InOneof(f),
           NEW s, MergeGood(d, t, s), s.ok, ~ IsSet(s.lm, f)
    PROVE  MergeStep(d, t, f, s,
               merge_picked(merged, s, get_field(Descriptors[t], s.em[f.quantifier_offset])))
<1> DEFINE q == f.quantifier_offset
           o == f.offset
           c == s.em[q]
           found == get_field(Descriptors[t], c)
           r == merge_picked(merged, s, found)
<1>1. /\ {o, q} \subseteq DOMAIN s.em /\ Holds(d, s.em, f)
      /\ {o, q} \subseteq DOMAIN s.lm /\ Holds(d, s.lm, f)
      /\ Laid(f) /\ t \in DOMAIN Descriptors
  BY MergeSlots
<1>2. q # "descriptor"
  BY <1>1, Zenon DEF Laid
<1>3. IsMerge(s) /\ s.h \in Heaps /\ s.ok = TRUE
  BY Zenon DEF MergeGood
<1>4. FieldsOf(s.em) = Descriptors[t].fields /\ FieldsOf(s.lm) = Descriptors[t].fields
  BY Zenon DEF MergeGood, FieldsOf, OfType
<1>5. CaseGood(s.em, f) /\ CaseGood(s.lm, f)
  BY <1>1, Zenon DEF Holds, SlotGood
<1>6. \A j \in DOMAIN Descriptors[t].fields :
          Descriptors[t].fields[j].id \in Int /\ Descriptors[t].fields[j].id # 0
  BY <1>1, RowLaid, Zenon DEF RowsOf
<1>7. s.lm[o] = NULL
  <2>1. s.lm[q] = 0
    BY <1>2, Zenon DEF IsSet
  <2> QED
    BY <1>4, <1>5, <1>6, <2>1, Zenon DEF CaseGood, Sharing
<1>8. CASE c = 0
  <2>1. found = NULL
    <3>1. c \in Int
      BY <1>8
    <3> QED
      BY <1>1, <1>6, <1>8, <3>1, GetField, ZenonT(30)
  <2>2. r = [s EXCEPT !.h = Fault(s.h, "fields[-1]")]
    BY <2>1 DEF merge_picked
  <2>3. r = [ok |-> TRUE, em |-> s.em, lm |-> s.lm, h |-> Fault(s.h, "fields[-1]")]
    BY <1>3, <2>2 DEF IsMerge
  <2>4. Kept(s.h, Fault(s.h, "fields[-1]"))
    BY <1>3 DEF Kept, Fault, Faults, Heaps
  <2>5. r.ok = TRUE /\ r.em = s.em /\ r.lm = s.lm /\ r.h = Fault(s.h, "fields[-1]")
    BY <2>3
  <2>6. IsMerge(r)
    BY <2>3, <2>5, Zenon DEF IsMerge
  <2>7. Honest(s.h, TRUE, r.h) /\ r.h \in Heaps
    BY <1>3, <2>4, <2>5, StillGoes, Zenon DEF Kept
  <2> HIDE DEF r
  <2> QED
    BY <1>3, <2>5, <2>6, <2>7, Unchanging, Zenon DEF MergeStep, MergeGood, r
<1>9. CASE c # 0
  <2>1. PICK j \in DOMAIN Descriptors[t].fields :
          LET g == Descriptors[t].fields[j]
          IN  InOneof(g) /\ g.id = c /\ g.offset = o /\ g.quantifier_offset = q
    BY <1>4, <1>5, <1>9, Zenon DEF CaseGood, Sharing
  <2> DEFINE g == Descriptors[t].fields[j]
  <2>2. found = <<g>>
    <3>1. c \in Int /\ g.id = c
      BY <1>6, <2>1
    <3>2. \A k \in DOMAIN Descriptors[t].fields :
              Descriptors[t].fields[k].id = c => found = <<Descriptors[t].fields[k]>>
      BY <1>1, <3>1, GetField, Zenon
    <3> QED
      BY <3>1, <3>2, Zenon
  <2>3. r = merge_singular(merged, g, s)
    <3>1. <<g>> # NULL /\ <<g>>[1] = g
      BY DEF NULL
    <3> QED
      BY <2>2, <3>1, Zenon DEF merge_picked
  <2>4. CASE ~ need_to_merge(g, s, s.em[o], s.lm[o])
    <3>1. r = s
      BY <1>7, <2>1, <2>3, <2>4, Zenon DEF merge_singular
    <3> QED
      BY <3>1, MergeNothing, Zenon
  <2>5. CASE need_to_merge(g, s, s.em[o], s.lm[o])
    <3>1. r = move_element(g, s)
      BY <1>7, <2>1, <2>3, <2>5, Zenon DEF merge_singular
    <3>2. Zero(g) = NULL /\ ZeroQuantifier(g) = 0
      BY <2>1, Zenon DEF Zero, ZeroQuantifier
    <3> DEFINE e == [s.em EXCEPT ![o] = NULL, ![q] = 0]
               l == [s.lm EXCEPT ![o] = s.em[o], ![q] = s.em[q]]
    <3>3. r = [[s EXCEPT !.lm[o] = s.em[o], !.em[o] = NULL]
                  EXCEPT !.lm[q] = s.em[q], !.em[q] = 0]
      BY <1>2, <2>1, <3>1, <3>2, Zenon DEF move_element
    <3>4. r = [ok |-> TRUE, em |-> e, lm |-> l, h |-> s.h]
      BY <1>3, <3>3 DEF IsMerge
    <3>5. MergeStep(d, t, f, s, [ok |-> TRUE, em |-> e, lm |-> l, h |-> s.h])
      BY <1>1, OneofMoved, Zenon
    <3> QED
      BY <3>4, <3>5
  <2> QED
    BY <2>4, <2>5
<1> QED
  BY <1>8, <1>9

\* What a field that is in no oneof points to is a submessage.
LEMMA SlotHeld ==
    ASSUME NEW m, NEW f \in RowsOf(m.descriptor), f.type = "MESSAGE", f.label # "REPEATED",
           ~ InOneof(f), m[f.offset] # NULL
    PROVE  m[f.offset][1] \in Submessages(m)
<1>1. Held(m, f) = <<m[f.offset]>>
  BY Zenon DEF Held
<1>2. DOMAIN <<m[f.offset]>> = {1} /\ <<m[f.offset]>>[1] = m[f.offset]
  OBVIOUS
<1>3. PICK i \in DOMAIN FieldsOf(m) : f = FieldsOf(m)[i]
  BY Zenon DEF RowsOf, FieldsOf
<1> DEFINE P(i1, k) == Held(m, FieldsOf(m)[i1])[k] # NULL /\ Held(m, FieldsOf(m)[i1])[k][1] = m[f.offset][1]
<1>4. 1 \in DOMAIN Held(m, FieldsOf(m)[i]) /\ P(i, 1)
  BY <1>1, <1>2, <1>3
<1>5. FieldsOf(m)[i].type = "MESSAGE" /\ \E k \in DOMAIN Held(m, FieldsOf(m)[i]) : P(i, k)
  BY <1>3, <1>4, Zenon
<1> QED
  BY <1>5, SubmessageHeld, Zenon

\* A submessage that merging has not come to yet.
Untouched(f, m, em) == f.type = "MESSAGE" /\ f.label # "REPEATED" /\ ~ InOneof(f) => m[f.offset] = em[f.offset]

\* One field, whatever its kind.
LEMMA FieldMerged ==
    ASSUME NEW merged, NEW d \in 0..MaxNesting, NEW t, NEW f \in RowsOf(t), NEW s, MergeGood(d, t, s),
           NEW em, NEW lm, MergesUnder(merged, d, em, lm), em.descriptor = t, lm.descriptor = t,
           Untouched(f, s.em, em), Untouched(f, s.lm, lm)
    PROVE  MergeStep(d, t, f, s, merge_field(merged, Descriptors[t], s, f))
<1> DEFINE r == merge_field(merged, Descriptors[t], s, f)
<1>1. CASE ~ s.ok \/ f.label = "REQUIRED" \/ (f.label # "REPEATED" /\ InOneof(f) /\ IsSet(s.lm, f))
  <2>1. r = s
    BY <1>1 DEF merge_field
  <2> QED
    BY <2>1, MergeNothing, Zenon
<1>2. CASE s.ok /\ f.label = "REPEATED"
  <2>1. r = merge_repeated(f, s)
    BY <1>2 DEF merge_field
  <2> QED
    BY <1>2, <2>1, RepeatedMerged, Zenon
<1>3. CASE s.ok /\ f.label \notin {"REQUIRED", "REPEATED"} /\ InOneof(f) /\ ~ IsSet(s.lm, f)
  <2>1. r = merge_picked(merged, s, get_field(Descriptors[t], s.em[f.quantifier_offset]))
    BY <1>3 DEF merge_field
  <2> QED
    BY <1>3, <2>1, OneofMerged, Zenon
<1>4. CASE s.ok /\ f.label \notin {"REQUIRED", "REPEATED"} /\ ~ InOneof(f)
  <2>1. r = merge_singular(merged, f, s)
    <3>1. r = merge_picked(merged, s, <<f>>)
      BY <1>4 DEF merge_field
    <3>2. <<f>> # NULL /\ <<f>>[1] = f
      BY DEF NULL
    <3> QED
      BY <3>1, <3>2, Zenon DEF merge_picked
  <2>2. f.type = "MESSAGE" /\ s.em[f.offset] # NULL => s.em[f.offset][1] \in Submessages(em)
    BY <1>4, SlotHeld DEF Untouched
  <2>3. f.type = "MESSAGE" /\ s.lm[f.offset] # NULL => s.lm[f.offset][1] \in Submessages(lm)
    BY <1>4, SlotHeld DEF Untouched
  <2>4. f.label # "REPEATED"
    BY <1>4
  <2> QED
    BY <1>4, <2>1, <2>2, <2>3, <2>4, SingularMerged, Zenon
<1> QED
  BY <1>1, <1>2, <1>3, <1>4

\* The rounds of a merge.
MergeLoop(merged, t, em, lm, h, loop) ==
    LET fields == Descriptors[t].fields
    IN  /\ loop[0] = [ok |-> TRUE, em |-> em, lm |-> lm, h |-> h]
        /\ \A k \in 1..Len(fields) : loop[k] = merge_field(merged, Descriptors[t], loop[k - 1], fields[k])

\* There is such a loop.
LEMMA MergeRounds ==
    ASSUME NEW merged, NEW em, NEW lm, NEW h, lm.descriptor \in DOMAIN Descriptors
    PROVE  \E loop : /\ MergeLoop(merged, lm.descriptor, em, lm, h, loop)
                     /\ message_merge(merged, em, lm, h) = loop[Len(Descriptors[lm.descriptor].fields)]
<1> DEFINE t == lm.descriptor
           desc == Descriptors[t]
           N == Len(desc.fields)
           G(k, f) == IF k = 0 THEN [ok |-> TRUE, em |-> em, lm |-> lm, h |-> h]
                      ELSE merge_field(merged, desc, f[k - 1], desc.fields[k])
           R(j, f) == f = [k \in 0..j |-> G(k, f)]
           loop == CHOOSE f : R(N, f)
           S == {j \in Nat : \E f : R(j, f)}
<1>1. N \in Nat
  BY FieldRows, Zenon
<1>2. message_merge(merged, em, lm, h) = loop[N]
  BY DEF message_merge
<1>3. \A k, f, g : (k # 0 => f[k - 1] = g[k - 1]) => G(k, f) = G(k, g)
  BY Zenon
<1>4. (\A f : G(0, f) = [ok |-> TRUE, em |-> em, lm |-> lm, h |-> h])
      /\ \A k, f : k # 0 => G(k, f) = merge_field(merged, desc, f[k - 1], desc.fields[k])
  BY Zenon
<1> HIDE DEF G
<1>5. 0 \in S
  <2>1. \A k \in 0..0 : k = 0
    OBVIOUS
  <2>2. [k \in 0..0 |-> G(0, <<>>)] = [k \in 0..0 |-> G(k, [i \in 0..0 |-> G(0, <<>>)])]
    BY <1>3, <2>1, Zenon
  <2> QED
    BY <2>2
<1>6. ASSUME NEW j \in S
      PROVE  j + 1 \in S
  <2>1. PICK f : R(j, f)
    OBVIOUS
  <2> DEFINE g == [k \in 0..(j + 1) |-> G(k, f)]
  <2>2. \A k \in 0..(j + 1) : k # 0 => k - 1 \in 0..j /\ k - 1 \in 0..(j + 1)
    OBVIOUS
  <2>3. \A k \in 0..(j + 1) : k # 0 => f[k - 1] = g[k - 1]
    BY <2>1, <2>2, Zenon
  <2>4. \A k \in 0..(j + 1) : G(k, f) = G(k, g)
    BY <1>3, <2>3, Zenon
  <2>5. R(j + 1, g)
    BY <2>4, Zenon
  <2>6. j \in Nat /\ j + 1 \in Nat
    OBVIOUS
  <2> HIDE DEF g, R
  <2> QED
    BY <2>5, <2>6, Zenon
<1> HIDE DEF S
<1>7. N \in S
  BY <1>1, <1>5, <1>6, Induction DEF S
<1>8. R(N, loop)
  BY <1>7, Zenon DEF S
<1> HIDE DEF loop
<1>9. \A k \in 0..N : loop[k] = G(k, loop)
  BY <1>8, Zenon
<1>10. 0 \in 0..N /\ \A k \in 1..N : k \in 0..N /\ k # 0
  BY <1>1
<1>11. MergeLoop(merged, t, em, lm, h, loop)
  BY <1>4, <1>9, <1>10, Zenon DEF MergeLoop
<1> QED
  BY <1>2, <1>11, Zenon

\* Two messages of a type are merged into such messages.
LEMMA MessageMerged ==
    ASSUME NEW merged, NEW d \in 0..MaxNesting, NEW t, NEW em, NEW lm, NEW h \in Heaps,
           OfType(d, t, em), OfType(d, t, lm), MergesUnder(merged, d, em, lm)
    PROVE  LET r == message_merge(merged, em, lm, h)
           IN  MergeGood(d, t, r) /\ Honest(h, r.ok, r.h)
<1> DEFINE fields == Descriptors[t].fields
           N == Len(fields)
           Later(k, s) == \A j \in DOMAIN fields :
                             j > k => Untouched(fields[j], s.em, em) /\ Untouched(fields[j], s.lm, lm)
           Fine(k, s) == MergeGood(d, t, s) /\ Honest(h, s.ok, s.h) /\ Later(k, s)
<1>1. t \in DOMAIN Descriptors /\ em.descriptor = t /\ lm.descriptor = t /\ Whole(d, em) /\ Whole(d, lm)
  BY Zenon DEF OfType, Whole, Headed
<1>2. N \in Nat /\ DOMAIN fields = 1..N
  BY <1>1, FieldRows, Zenon
<1>3. PICK loop : /\ MergeLoop(merged, t, em, lm, h, loop)
                  /\ message_merge(merged, em, lm, h) = loop[N]
  <2>1. \E loop : /\ MergeLoop(merged, lm.descriptor, em, lm, h, loop)
                  /\ message_merge(merged, em, lm, h) = loop[Len(Descriptors[lm.descriptor].fields)]
    BY <1>1, MergeRounds
  <2> QED
    BY <1>1, <2>1
<1> DEFINE S == {k \in 0..N : Fine(k, loop[k])}
<1>4. Fine(0, loop[0])
  <2> DEFINE s == [ok |-> TRUE, em |-> em, lm |-> lm, h |-> h]
  <2>1. loop[0] = s
    BY <1>3, Zenon DEF MergeLoop
  <2>2. s.ok = TRUE /\ s.em = em /\ s.lm = lm /\ s.h = h
    OBVIOUS
  <2>3. IsMerge(s)
    BY <2>2, Zenon DEF IsMerge
  <2>4. Honest(h, TRUE, h)
    BY HonestSame, Zenon
  <2> HIDE DEF s
  <2>5. MergeGood(d, t, s)
    BY <2>2, <2>3, Zenon DEF MergeGood
  <2>6. Later(0, s)
    BY <2>2, Zenon DEF Untouched
  <2> QED
    BY <2>1, <2>2, <2>4, <2>5, <2>6, Zenon
<1>5. ASSUME NEW k \in 1..N, Fine(k - 1, loop[k - 1])
      PROVE  Fine(k, loop[k])
  <2> DEFINE s == loop[k - 1]
             r == loop[k]
             f == fields[k]
  <2>1. k \in DOMAIN fields /\ f \in RowsOf(t) /\ k > k - 1
    BY <1>2 DEF RowsOf
  <2>2. Untouched(f, s.em, em) /\ Untouched(f, s.lm, lm) /\ MergeGood(d, t, s) /\ Honest(h, s.ok, s.h)
    BY <1>5, <2>1, Zenon
  <2>3. r = merge_field(merged, Descriptors[t], s, f)
    BY <1>3, Zenon DEF MergeLoop
  <2> HIDE DEF r, s, f, fields
  <2>4. MergeStep(d, t, f, s, r)
    BY <1>1, <2>1, <2>2, <2>3, FieldMerged, Zenon
  <2>5. Honest(h, r.ok, r.h)
    <3>1. Honest(s.h, r.ok, r.h) /\ (r.ok => s.ok)
      BY <2>4, Zenon DEF MergeStep
    <3> QED
      BY <2>2, <3>1, GoesOn, Zenon
  <2>6. ASSUME NEW j \in DOMAIN fields, j > k
        PROVE  Untouched(fields[j], r.em, em) /\ Untouched(fields[j], r.lm, lm)
    <3> DEFINE g == fields[j]
    <3>1. j > k - 1 /\ j # k
      BY <1>2, <2>6
    <3>2. Untouched(g, s.em, em) /\ Untouched(g, s.lm, lm)
      BY <1>5, <3>1, Zenon DEF s, fields
    <3>3. CASE InOneof(g)
      BY <3>3, Zenon DEF Untouched
    <3>4. CASE ~ InOneof(g)
      <4>1. Apart(f, g) /\ Apart(g, f)
        BY <1>1, <2>1, <3>1, LayoutAssumption, Zenon DEF Structured, f, fields
      <4>2. g.offset \notin {f.offset, f.quantifier_offset}
        BY <3>4, <4>1, Zenon DEF Apart
      <4>3. g \in RowsOf(t)
        BY Zenon DEF RowsOf, fields
      <4>4. g.offset \in DOMAIN s.em /\ g.offset \in DOMAIN s.lm
        BY <2>2, <4>3, MergeSlots, Zenon
      <4>5. Changes(s.em, r.em, f) /\ Changes(s.lm, r.lm, f)
        BY <2>4, Zenon DEF MergeStep
      <4>6. r.em[g.offset] = s.em[g.offset] /\ r.lm[g.offset] = s.lm[g.offset]
        BY <4>2, <4>4, <4>5, Zenon DEF Changes
      <4> QED
        BY <3>2, <4>6, Zenon DEF Untouched
    <3> QED
      BY <3>3, <3>4
  <2> QED
    BY <2>4, <2>5, <2>6, Zenon DEF MergeStep, r
<1> HIDE DEF Fine, fields, N
<1>6. 0 \in S /\ \A k \in 1..N : k - 1 \in S => k \in S
  BY <1>2, <1>4, <1>5
<1> HIDE DEF S
<1>7. N \in S
  BY <1>2, <1>6, Along
<1>8. Fine(N, loop[N])
  BY <1>7 DEF S
<1> QED
  BY <1>3, <1>8, Zenon DEF Fine

\* What merges the messages on each level is made of what merges the level below.
MergesOf(merged, earlier, latter) ==
    /\ \A h : merge_messages(earlier, latter, h) = merged[MaxNesting][earlier][latter][h]
    /\ \A n \in 0..MaxNesting :
          merged[n] = [em \in Nested(earlier)[MaxNesting - n] |->
              [lm \in Nested(latter)[MaxNesting - n] |-> [g \in Heaps |->
                  message_merge(IF n = 0 THEN <<>> ELSE merged[n - 1], em, lm, g)]]]

\* There are such functions.
LEMMA MergeLevels ==
    ASSUME NEW earlier, NEW latter
    PROVE  \E merged : MergesOf(merged, earlier, latter)
<1> DEFINE N == MaxNesting
           below(n, f) == IF n = 0 THEN <<>> ELSE f[n - 1]
           G(n, f) == [em \in Nested(earlier)[MaxNesting - n] |->
                          [lm \in Nested(latter)[MaxNesting - n] |-> [g \in Heaps |->
                              message_merge(below(n, f), em, lm, g)]]]
           R(j, f) == f = [n \in 0..j |-> G(n, f)]
           merged == CHOOSE f : R(N, f)
           S == {j \in Nat : \E f : R(j, f)}
<1>1. N \in Nat
  BY NestingAssumption
<1>2. \A h : merge_messages(earlier, latter, h) = merged[N][earlier][latter][h]
  BY DEF merge_messages
<1>3. \A n, f, h : (n # 0 => f[n - 1] = h[n - 1]) => G(n, f) = G(n, h)
  <2>1. \A n, f, h : (n # 0 => f[n - 1] = h[n - 1]) => below(n, f) = below(n, h)
    BY Zenon
  <2> HIDE DEF below
  <2> QED
    BY <2>1, ZenonT(30)
<1> HIDE DEF G
<1>4. 0 \in S
  <2>1. \A n \in 0..0 : n = 0
    OBVIOUS
  <2>2. [n \in 0..0 |-> G(0, <<>>)] = [n \in 0..0 |-> G(n, [i \in 0..0 |-> G(0, <<>>)])]
    BY <1>3, <2>1, Zenon
  <2> QED
    BY <2>2
<1>5. ASSUME NEW j \in S
      PROVE  j + 1 \in S
  <2>1. PICK f : R(j, f)
    OBVIOUS
  <2> DEFINE h == [n \in 0..(j + 1) |-> G(n, f)]
  <2>2. \A n \in 0..(j + 1) : n # 0 => n - 1 \in 0..j /\ n - 1 \in 0..(j + 1)
    OBVIOUS
  <2>3. \A n \in 0..(j + 1) : n # 0 => f[n - 1] = h[n - 1]
    BY <2>1, <2>2, Zenon
  <2>4. \A n \in 0..(j + 1) : G(n, f) = G(n, h)
    BY <1>3, <2>3, Zenon
  <2>5. R(j + 1, h)
    BY <2>4, Zenon
  <2>6. j \in Nat /\ j + 1 \in Nat
    OBVIOUS
  <2> HIDE DEF h, R
  <2> QED
    BY <2>5, <2>6, Zenon
<1> HIDE DEF S
<1>6. N \in S
  BY <1>1, <1>4, <1>5, Induction DEF S
<1>7. R(N, merged)
  BY <1>6, Zenon DEF S
<1> HIDE DEF merged
<1>8. \A n \in 0..N : merged[n] = G(n, merged)
  BY <1>7, Zenon
<1> QED
  BY <1>2, <1>8, Zenon DEF MergesOf, G, below

\* merge_messages of two messages that were unpacked, of one type: both stay
\* such messages, and no allocation fails unseen.
LEMMA MessagesMerged ==
    ASSUME NEW d \in 0..MaxNesting, NEW t, NEW earlier, NEW latter, NEW h \in Heaps,
           OfType(d, t, earlier), OfType(d, t, latter)
    PROVE  LET r == merge_messages(earlier, latter, h)
           IN  MergeGood(d, t, r) /\ Honest(h, r.ok, r.h)
<1> DEFINE N == MaxNesting
           D(n) == Nested(earlier)[MaxNesting - n]
           E(n) == Nested(latter)[MaxNesting - n]
           Result(e, u, g, r) == MergeGood(e, u, r) /\ Honest(g, r.ok, r.h)
<1>1. N \in Nat
  BY NestingAssumption
<1>2. PICK merged : MergesOf(merged, earlier, latter)
  BY MergeLevels, Zenon
<1>3. ASSUME NEW n \in 0..N, NEW em \in D(n), NEW lm \in E(n), NEW g \in Heaps
      PROVE  merged[n][em][lm][g] = message_merge(IF n = 0 THEN <<>> ELSE merged[n - 1], em, lm, g)
  <2> DEFINE op(x, y, a) == message_merge(IF n = 0 THEN <<>> ELSE merged[n - 1], x, y, a)
             row == [x \in D(n) |-> [y \in E(n) |-> [a \in Heaps |-> op(x, y, a)]]]
  <2>1. merged[n] = row
    BY <1>2, Zenon DEF MergesOf
  <2> HIDE DEF op
  <2>2. row[em] = [y \in E(n) |-> [a \in Heaps |-> op(em, y, a)]]
    BY Zenon
  <2>3. row[em][lm] = [a \in Heaps |-> op(em, lm, a)]
    BY <2>2, Zenon
  <2>4. row[em][lm][g] = op(em, lm, g)
    BY <2>3, Zenon
  <2> QED
    BY <2>1, <2>4, Zenon DEF op
<1>4. \A n \in 0..N : n # 0 =>
         /\ \A m \in D(n) : \A x \in Submessages(m) : x \in D(n - 1)
         /\ \A m \in E(n) : \A x \in Submessages(m) : x \in E(n - 1)
  <2>1. ASSUME NEW n \in 0..N, n # 0
        PROVE  n \in 1..N
    BY <1>1, <2>1
  <2> QED
    BY <2>1, LevelBelow, Zenon
<1> HIDE DEF D, E
<1> DEFINE Fine(n) == \A em \in D(n), lm \in E(n) : \A e \in 0..n : \A u :
                         OfType(e, u, em) /\ OfType(e, u, lm) =>
                            \A g \in Heaps : Result(e, u, g, merged[n][em][lm][g])
           S == {n \in 0..N : Fine(n)}
<1>5. ASSUME NEW n \in 0..N, n = 0 \/ Fine(n - 1)
      PROVE  Fine(n)
  <2> SUFFICES ASSUME NEW em \in D(n), NEW lm \in E(n), NEW e \in 0..n, NEW u,
                      OfType(e, u, em), OfType(e, u, lm), NEW g \in Heaps
               PROVE  Result(e, u, g, merged[n][em][lm][g])
    BY Zenon
  <2> DEFINE below == IF n = 0 THEN <<>> ELSE merged[n - 1]
  <2>1. e \in 0..N /\ (n = 0 => e = 0) /\ (e # 0 => e - 1 \in 0..(n - 1))
    BY <1>1
  <2>2. ASSUME NEW x \in Submessages(em), NEW y \in Submessages(lm), NEW a \in Heaps,
               x.descriptor = y.descriptor, e # 0, Whole(e - 1, x), Whole(e - 1, y)
        PROVE  Result(e - 1, x.descriptor, a, below[x][y][a])
    <3>1. n # 0 /\ x \in D(n - 1) /\ y \in E(n - 1)
      BY <1>4, <2>1, <2>2, Zenon
    <3>2. below = merged[n - 1] /\ Fine(n - 1)
      BY <1>5, <3>1, Zenon
    <3>3. OfType(e - 1, x.descriptor, x) /\ OfType(e - 1, x.descriptor, y)
      BY <2>2, Zenon DEF OfType
    <3> HIDE DEF below, Result
    <3> QED
      BY <2>1, <2>2, <3>1, <3>2, <3>3, Zenon
  <2> HIDE DEF below
  <2>3. MergesUnder(below, e, em, lm)
    BY <2>2, Zenon DEF MergesUnder
  <2>4. merged[n][em][lm][g] = message_merge(below, em, lm, g)
    BY <1>3, Zenon DEF below
  <2>5. Result(e, u, g, message_merge(below, em, lm, g))
    BY <2>1, <2>3, MessageMerged, Zenon
  <2> QED
    BY <2>4, <2>5, Zenon
<1> HIDE DEF Fine
<1>6. 0 \in S /\ \A n \in 1..N : n - 1 \in S => n \in S
  BY <1>1, <1>5
<1> HIDE DEF S
<1>7. N \in S
  BY <1>1, <1>6, Along
<1>8. Fine(N)
  BY <1>7 DEF S
<1>9. earlier \in D(N) /\ latter \in E(N)
  BY LevelTop DEF D, E
<1>10. Result(d, t, h, merged[N][earlier][latter][h])
  BY <1>8, <1>9, Zenon DEF Fine
<1> QED
  BY <1>2, <1>10, Zenon DEF MergesOf

-----------------------------------------------------------------------------
(* Parsing one member. *)

\* A member that was scanned for a message of type t.
Scanned(t, sm) ==
    /\ sm.data \in Seq(Byte) /\ sm.pref \in Nat /\ sm.tag \in Nat /\ sm.wire_type \in Nat
    /\ sm.field = NULL \/ \E f \in RowsOf(t) : sm.field = <<f>> /\ f.id = sm.tag
\* What unpacking the submessages does.
UnpacksUnder(unpacked, d) ==
    \A t \in DOMAIN Descriptors, g \in Heaps, b \in Seq(Byte) :
        /\ Honest(g, unpacked[t][g][b].rv # NULL, unpacked[t][g][b].h)
        /\ unpacked[t][g][b].rv # NULL => d # 0 /\ OfType(d - 1, t, unpacked[t][g][b].rv[1])

\* What a slot may hold, and what parsing makes of it.
MayHold(d, f, p) == f.type = "MESSAGE" /\ p # NULL => Under(d, f, p[1])
ParsedWell(d, f, h, old, p) ==
    /\ Honest(h, p.ok, p.h) /\ MayHold(d, f, p.v)
    /\ ~ p.ok /\ old = NULL => p.v = NULL

\* A string or bytes, the old one freed first.
LEMMA TextParsed ==
    ASSUME NEW d, NEW f, f.type \in Text, NEW bytes, NEW old, NEW h \in Heaps, NEW clear
    PROVE  ParsedWell(d, f, h, old, parse_text(f, bytes, old, h, clear))
<1> DEFINE cleared == IF clear THEN free_text(h, old, f.default_value) ELSE h
           new == do_alloc(cleared)
           r == parse_text(f, bytes, old, h, clear)
<1>1. Kept(h, cleared)
  BY TextKept, KeptSame, Zenon
<1>2. f.type # "MESSAGE"
  BY DEF Text
<1>3. cleared \in Heaps /\ Honest(h, TRUE, cleared)
  BY <1>1, StillGoes, Zenon DEF Kept
<1>4. CASE f.type = "BYTES" /\ bytes = <<>>
  <2>1. r = [ok |-> TRUE, v |-> NULL, h |-> cleared]
    BY <1>4, Zenon DEF parse_text
  <2> HIDE DEF cleared
  <2>2. r.ok = TRUE /\ r.v = NULL /\ r.h = cleared
    BY <2>1
  <2> QED
    BY <1>2, <1>3, <2>2, Zenon DEF ParsedWell, MayHold
<1>5. CASE ~ (f.type = "BYTES" /\ bytes = <<>>)
  <2>1. r = TextBlock(new, bytes)
    BY <1>5, Zenon DEF parse_text
  <2>2. Honest(cleared, new.ptr # 0, new.h)
    BY <1>3, AllocGoes, Zenon
  <2> HIDE DEF cleared, new
  <2>3. Honest(h, new.ptr # 0, new.h)
    BY <1>3, <2>2, GoesOn, Zenon
  <2>4. r.ok = (new.ptr # 0) /\ r.h = new.h /\ (new.ptr = 0 => r.v = NULL)
    BY <2>1 DEF TextBlock
  <2> HIDE DEF r
  <2>5. Honest(h, r.ok, r.h)
    BY <2>3, <2>4
  <2>6. ~ r.ok => r.v = NULL
    BY <2>4
  <2> QED
    BY <1>2, <2>5, <2>6, Zenon DEF ParsedWell, MayHold, r
<1> QED
  BY <1>4, <1>5

\* A submessage, merged with the one before.
LEMMA SubmessageParsed ==
    ASSUME NEW unpacked, NEW d \in 0..MaxNesting, UnpacksUnder(unpacked, d), NEW f,
           f.type = "MESSAGE", f.descriptor \in DOMAIN Descriptors,
           NEW bytes \in Seq(Byte), NEW old, MayHold(d, f, old), NEW h \in Heaps, NEW clear
    PROVE  ParsedWell(d, f, h, old, parse_submessage(unpacked, f, bytes, old, h, clear))
<1> DEFINE u == unpacked[f.descriptor][h][bytes]
           merge == clear /\ old # NULL /\ old # f.default_value
           r == parse_submessage(unpacked, f, bytes, old, h, clear)
<1>1. Honest(h, u.rv # NULL, u.h) /\ (u.rv # NULL => d # 0 /\ OfType(d - 1, f.descriptor, u.rv[1]))
  BY Zenon DEF UnpacksUnder
<1>2. r = MergeInto(u, old, merge)
  BY Zenon DEF parse_submessage
<1>3. d # 0 => d - 1 \in 0..MaxNesting
  BY NestingAssumption
<1>4. u.h \in Heaps
  BY <1>1, Zenon DEF Honest
<1> HIDE DEF u, r
<1>5. u.rv # NULL => Under(d, f, u.rv[1])
  BY <1>1, UnderWhole, Zenon DEF OfType
<1>6. CASE ~ merge
  <2>1. r = [ok |-> u.rv # NULL, v |-> u.rv, h |-> u.h]
    BY <1>2, <1>6, Zenon DEF MergeInto
  <2>2. r.ok = (u.rv # NULL) /\ r.v = u.rv /\ r.h = u.h
    BY <2>1
  <2>3. Honest(h, r.ok, r.h)
    BY <1>1, <2>2
  <2> QED
    BY <1>5, <2>2, <2>3 DEF ParsedWell, MayHold, r
<1>7. merge => /\ old # NULL /\ d # 0 /\ d - 1 \in 0..MaxNesting
               /\ OfType(d - 1, f.descriptor, old[1]) /\ Whole(d - 1, old[1])
  <2> SUFFICES ASSUME merge
               PROVE  /\ old # NULL /\ d # 0 /\ d - 1 \in 0..MaxNesting
                      /\ OfType(d - 1, f.descriptor, old[1]) /\ Whole(d - 1, old[1])
    OBVIOUS
  <2>1. Under(d, f, old[1])
    BY DEF MayHold
  <2>2. \A z : Under(d, f, z) => d # 0 /\ Whole(d - 1, z) /\ z.descriptor = f.descriptor
    BY UnderWhole
  <2> QED
    BY <1>3, <2>1, <2>2, Zenon DEF OfType
<1>8. CASE merge /\ u.rv = NULL
  <2> DEFINE freed == protobuf_c_message_free_unpacked(old[1], u.h)
  <2>1. r = FreeAfter([ok |-> FALSE, v |-> NULL, h |-> u.h], old[1])
    BY <1>2, <1>8, Zenon DEF MergeInto
  <2>2. r.ok = FALSE /\ r.v = NULL /\ r.h = freed
    BY <2>1 DEF FreeAfter
  <2>3. Kept(u.h, freed)
    BY <1>4, <1>7, <1>8, FreeUnpackedKept, Zenon
  <2>4. Honest(h, FALSE, u.h)
    BY <1>1, <1>8 DEF Honest
  <2>5. Honest(h, FALSE, freed)
    BY <2>3, <2>4, KeptGoes, Zenon
  <2> QED
    BY <2>2, <2>5, Zenon DEF ParsedWell, MayHold, r
<1>9. CASE merge /\ u.rv # NULL
  <2> DEFINE p == merge_messages(old[1], u.rv[1], u.h)
             freed == protobuf_c_message_free_unpacked(p.em, p.h)
  <2>1. r = AfterMerge(p)
    BY <1>2, <1>9, Zenon DEF MergeInto
  <2>2. MergeGood(d - 1, f.descriptor, p) /\ Honest(u.h, p.ok, p.h)
    BY <1>1, <1>4, <1>7, <1>9, MessagesMerged, Zenon
  <2> HIDE DEF p
  <2>3. r.ok = p.ok /\ r.v = <<p.lm>> /\ r.h = freed
    BY <2>1 DEF AfterMerge, FreeAfter
  <2>4. /\ OfType(d - 1, f.descriptor, p.lm) /\ Whole(d - 1, p.em)
        /\ p.h \in Heaps /\ p.ok \in BOOLEAN
    BY <2>2, Zenon DEF MergeGood, OfType
  <2>5. Kept(p.h, freed)
    BY <1>7, <1>9, <2>4, FreeUnpackedKept, Zenon
  <2>6. Honest(h, TRUE, u.h)
    BY <1>1, <1>9 DEF Honest
  <2>7. Honest(h, p.ok, p.h)
    BY <2>2, <2>6, GoesOn, Zenon
  <2>8. Honest(h, p.ok, freed)
    BY <2>5, <2>7, KeptGoes, Zenon
  <2>9. Under(d, f, p.lm)
    BY <1>7, <1>9, <2>4, UnderWhole, Zenon DEF OfType
  <2>10. r.v[1] = p.lm
    BY <2>3
  <2>11. MayHold(d, f, r.v)
    BY <2>9, <2>10, Zenon DEF MayHold
  <2>12. Honest(h, r.ok, r.h)
    BY <2>3, <2>8
  <2> QED
    BY <1>7, <1>9, <2>11, <2>12, Zenon DEF ParsedWell, r
<1> QED
  BY <1>6, <1>8, <1>9

\* What is left of the data is bytes.
LEMMA RestOfData ==
    ASSUME NEW d \in Seq(Byte), NEW n \in Nat
    PROVE  SubSeq(d, n + 1, Len(d)) \in Seq(Byte)
OBVIOUS

\* A length below its prefix allocates nothing.
LEMMA UndefinedKept ==
    ASSUME NEW h \in Heaps
    PROVE  Kept(h, Undefined(h))
<1>1. Undefined(h) \in Heaps
  BY DEF Heaps, Undefined, Fault, Faults
<1> QED
  BY <1>1 DEF Kept, Undefined, Fault, Heaps

\* parse_required_member, whatever the type.
LEMMA RequiredParsed ==
    ASSUME NEW unpacked, NEW d \in 0..MaxNesting, UnpacksUnder(unpacked, d), NEW t \in DOMAIN Descriptors,
           NEW f \in RowsOf(t), NEW sm, sm.data \in Seq(Byte), sm.pref \in Nat, sm.field = <<f>>,
           NEW old, MayHold(d, f, old), NEW h \in Heaps, NEW clear
    PROVE  ParsedWell(d, f, h, old, parse_required_member(unpacked, sm, old, h, clear))
<1> DEFINE bytes == SubSeq(sm.data, sm.pref + 1, Len(sm.data))
           r == parse_required_member(unpacked, sm, old, h, clear)
<1>1. bytes \in Seq(Byte)
  BY RestOfData
<1>2. sm.field[1] = f
  OBVIOUS
<1>7. Honest(h, FALSE, h) /\ Honest(h, TRUE, h)
  <2>1. FALSE \in BOOLEAN /\ TRUE \in BOOLEAN
    OBVIOUS
  <2> QED
    BY <2>1, HonestSame, Zenon
<1> HIDE DEF bytes
<1>3. CASE f.type # "BOOL" /\ sm.wire_type # wire_type_of(f.type)
  <2>1. r = [ok |-> FALSE, v |-> old, h |-> h]
    BY <1>2, <1>3 DEF parse_required_member
  <2>2. r.ok = FALSE /\ r.v = old /\ r.h = h
    BY <2>1
  <2> QED
    BY <1>7, <2>2, Zenon DEF ParsedWell, r
<1>8. CASE /\ ~ (f.type # "BOOL" /\ sm.wire_type # wire_type_of(f.type))
           /\ f.type \in Pointer /\ BelowPrefix(sm)
  <2>1. r = [ok |-> FALSE, v |-> old, h |-> Undefined(h)]
    BY <1>2, <1>8, Zenon DEF parse_required_member
  <2>2. r.ok = FALSE /\ r.v = old /\ r.h = Undefined(h)
    BY <2>1
  <2>3. Honest(h, FALSE, Undefined(h))
    BY <1>7, UndefinedKept, KeptGoes, Zenon
  <2> QED
    BY <2>2, <2>3, Zenon DEF ParsedWell, r
<1>4. CASE /\ ~ (f.type # "BOOL" /\ sm.wire_type # wire_type_of(f.type))
           /\ ~ BelowPrefix(sm) /\ f.type \in Text
  <2>1. r = parse_text(f, bytes, old, h, clear)
    BY <1>2, <1>4 DEF parse_required_member, bytes, Text
  <2> QED
    BY <1>4, <2>1, TextParsed, Zenon
<1>5. CASE /\ ~ (f.type # "BOOL" /\ sm.wire_type # wire_type_of(f.type))
           /\ ~ BelowPrefix(sm) /\ f.type = "MESSAGE"
  <2>1. r = parse_submessage(unpacked, f, bytes, old, h, clear)
    BY <1>2, <1>5 DEF parse_required_member, bytes, Text
  <2>2. f.descriptor \in DOMAIN Descriptors
    BY <1>5, RowLaid, Zenon DEF Laid
  <2> QED
    BY <1>1, <1>5, <2>1, <2>2, SubmessageParsed, Zenon
<1>6. CASE ~ (f.type # "BOOL" /\ sm.wire_type # wire_type_of(f.type)) /\ f.type \notin Text \cup {"MESSAGE"}
  <2>1. r = [ok |-> TRUE, v |-> scalar_parse(f.type, sm.data), h |-> h]
    BY <1>2, <1>6 DEF parse_required_member, Pointer, Text
  <2>2. r.ok = TRUE /\ r.h = h
    BY <2>1
  <2>3. f.type # "MESSAGE"
    BY <1>6
  <2> QED
    BY <1>7, <2>2, <2>3, Zenon DEF ParsedWell, MayHold, r
<1> QED
  BY <1>3, <1>4, <1>5, <1>6, <1>8 DEF Pointer, Text

\* A member was parsed into a message of type t, or not.
Parsed(d, t, h, p) == Honest(h, p.ok, p.h) /\ OfType(d, t, p.m)

\* The slots of a field of a whole message.
LEMMA RowSlots ==
    ASSUME NEW d, NEW t, NEW f \in RowsOf(t), NEW m, OfType(d, t, m)
    PROVE  /\ {f.offset, f.quantifier_offset} \subseteq DOMAIN m /\ Holds(d, m, f)
           /\ Laid(f) /\ t \in DOMAIN Descriptors
           /\ f.offset # f.quantifier_offset /\ f.offset # "descriptor"
<1>1. Headed(m) /\ m.descriptor = t
  BY Zenon DEF Whole, OfType
<1>2. Holds(d, m, f)
  BY <1>1, WholeRows, Zenon DEF OfType
<1>3. t \in DOMAIN Descriptors
  BY <1>1, Zenon DEF Headed
<1>4. Laid(f)
  BY <1>3, RowLaid, Zenon
<1> QED
  BY <1>2, <1>3, <1>4, Zenon DEF Holds, SlotGood, Laid

\* What a field with one value has now.
LEMMA RowMayHold ==
    ASSUME NEW d, NEW t, NEW f \in RowsOf(t), ~ InOneof(f), f.label # "REPEATED",
           NEW m, OfType(d, t, m)
    PROVE  MayHold(d, f, m[f.offset])
<1>1. {f.offset, f.quantifier_offset} \subseteq DOMAIN m /\ Holds(d, m, f)
  BY RowSlots, Zenon
<1> QED
  BY <1>1, SingularHolds, Zenon DEF MayHold

\* The value of a field that is not repeated is stored.
LEMMA ValueParsed ==
    ASSUME NEW d, NEW t, NEW f \in RowsOf(t), ~ InOneof(f), f.label # "REPEATED",
           NEW m, OfType(d, t, m), NEW v, MayHold(d, f, v)
    PROVE  OfType(d, t, [m EXCEPT ![f.offset] = v])
<1> DEFINE x == [m EXCEPT ![f.offset] = v]
<1>1. /\ {f.offset, f.quantifier_offset} \subseteq DOMAIN m
      /\ f.offset # f.quantifier_offset /\ f.offset # "descriptor"
  BY RowSlots, Zenon
<1>2. Changes(m, x, f) /\ x[f.offset] = v
  BY <1>1, ValueSlot, Zenon
<1> HIDE DEF x
<1>3. {f.offset, f.quantifier_offset} \subseteq DOMAIN x
  BY <1>1, <1>2, Zenon DEF Changes
<1>4. Holds(d, x, f)
  BY <1>2, <1>3, SingularHolds, Zenon DEF MayHold
<1>5. OfType(d, t, x)
  BY <1>2, <1>4, RowAlone, Zenon
<1> QED
  BY <1>5 DEF x

\* And its has_ flag.
LEMMA BothParsed ==
    ASSUME NEW d, NEW t, NEW f \in RowsOf(t), ~ InOneof(f), f.label # "REPEATED",
           f.quantifier_offset # "descriptor",
           NEW m, OfType(d, t, m), NEW v, MayHold(d, f, v), NEW q
    PROVE  OfType(d, t, [m EXCEPT ![f.offset] = v, ![f.quantifier_offset] = q])
<1> DEFINE x == [m EXCEPT ![f.offset] = v, ![f.quantifier_offset] = q]
<1>1. /\ {f.offset, f.quantifier_offset} \subseteq DOMAIN m
      /\ f.offset # f.quantifier_offset /\ f.offset # "descriptor"
  BY RowSlots, Zenon
<1>2. Changes(m, x, f) /\ x[f.offset] = v
  BY <1>1, OffsetFirst, Zenon
<1> HIDE DEF x
<1>3. {f.offset, f.quantifier_offset} \subseteq DOMAIN x
  BY <1>1, <1>2, Zenon DEF Changes
<1>4. Holds(d, x, f)
  BY <1>2, <1>3, SingularHolds, Zenon DEF MayHold
<1>5. OfType(d, t, x)
  BY <1>2, <1>4, RowAlone, Zenon
<1> QED
  BY <1>5 DEF x

\* The two cases of a field with one value.
LEMMA RequiredMemberParsed ==
    ASSUME NEW d, NEW t, NEW f \in RowsOf(t), ~ InOneof(f), f.label # "REPEATED",
           NEW m, OfType(d, t, m), NEW sm, sm.field[1] = f, NEW h, NEW p,
           Honest(h, p.ok, p.h), MayHold(d, f, p.v)
    PROVE  Parsed(d, t, h, RequiredMember(sm, m, p))
<1> DEFINE r == RequiredMember(sm, m, p)
<1>1. r.ok = p.ok /\ r.h = p.h /\ r.m = [m EXCEPT ![f.offset] = p.v]
  BY DEF RequiredMember
<1>2. OfType(d, t, [m EXCEPT ![f.offset] = p.v])
  BY ValueParsed, Zenon
<1> QED
  BY <1>1, <1>2, Zenon DEF Parsed

\* A field that is not repeated, with or without a has_ flag.
LEMMA StoredParsed ==
    ASSUME NEW d, NEW t, NEW f \in RowsOf(t), ~ InOneof(f), f.label # "REPEATED",
           NEW m, OfType(d, t, m), NEW h, NEW p,
           Honest(h, p.ok, p.h), MayHold(d, f, p.v), NEW present
    PROVE  Parsed(d, t, h, Stored(f, m, p, present))
<1> DEFINE r == Stored(f, m, p, present)
           both == [m EXCEPT ![f.offset] = p.v, ![f.quantifier_offset] = present]
           value == [m EXCEPT ![f.offset] = p.v]
<1>1. /\ r.ok = p.ok /\ r.h = p.h
      /\ r.m = IF p.ok /\ f.quantifier_offset # "descriptor" THEN both ELSE value
  BY DEF Stored
<1>2. OfType(d, t, value)
  BY ValueParsed, Zenon
<1>3. f.quantifier_offset # "descriptor" => OfType(d, t, both)
  BY BothParsed, Zenon
<1> HIDE DEF r, both, value
<1>4. OfType(d, t, r.m)
  BY <1>1, <1>2, <1>3, Zenon
<1> QED
  BY <1>1, <1>4, Zenon DEF Parsed, r

\* The array behind a count takes more elements.
LEMMA ElementsAppended ==
    ASSUME NEW d, NEW f, NEW n \in Nat, NEW a, ElementsGood(d, f, Elements(n, a)),
           NEW e, e \in Seq(Range(e)), ElementsGood(d, f, e), NEW blk, NEW cap
    PROVE  LET all == Elements(n, a) \o e
           IN  Len(all) \in Nat /\ ElementsGood(d, f, Elements(Len(all), <<Array(blk, cap, all)>>))
<1> DEFINE b == <<[e |-> e]>>
           m == Len(e)
           V == Range(e)
<1>1. m \in Nat /\ e = [k \in 1..m |-> e[k]]
  <2> HIDE DEF V
  <2>1. e \in Seq(V)
    BY DEF V
  <2> QED
    BY <2>1
<1>2. b[1].e = e
  OBVIOUS
<1>3. Elements(m, b) = [k \in 1..m |-> e[k]]
  BY <1>2 DEF Elements
<1>4. Elements(m, b) = e
  BY <1>1, <1>3
<1> HIDE DEF b, m
<1>5. ElementsGood(d, f, Elements(m, b))
  BY <1>4
<1> QED
  BY <1>1, <1>4, <1>5, ElementsJoined

\* Elements are added to a repeated field.
LEMMA ExtendedParsed ==
    ASSUME NEW d, NEW t, NEW f \in RowsOf(t), f.label = "REPEATED",
           NEW m, OfType(d, t, m), NEW h \in Heaps,
           NEW e, e \in Seq(Range(e)), ElementsGood(d, f, e)
    PROVE  LET r == Extend(m, f, h, e)
           IN  r.ok = TRUE /\ OfType(d, t, r.m) /\ Kept(h, r.h)
<1> DEFINE o == f.offset
           q == f.quantifier_offset
           n == m[q]
           array == m[o][1]
           all == Elements(n, <<array>>) \o e
           r == Extend(m, f, h, e)
<1>1. {o, q} \subseteq DOMAIN m /\ Holds(d, m, f) /\ Laid(f) /\ o # q /\ o # "descriptor"
  BY RowSlots, Zenon
<1>2. q # "descriptor" /\ ~ InOneof(f)
  BY <1>1 DEF Laid
<1>3. n \in Nat /\ ElementsGood(d, f, Elements(n, m[o]))
  BY <1>1, <1>2, RepeatedHolds, Zenon
<1>4. Elements(n, <<array>>) = Elements(n, m[o])
  BY DEF Elements
<1>5. CASE e = <<>>
  <2>1. r.ok = TRUE /\ r.m = m /\ r.h = h
    BY <1>5 DEF Extend
  <2> QED
    BY <2>1, KeptSame, Zenon
<1>6. CASE e # <<>>
  <2> DEFINE new == <<Array(array.blk, array.cap, all)>>
             x == [m EXCEPT ![q] = Len(all), ![o] = new]
  <2>1. /\ r.ok = TRUE /\ r.m = x
        /\ r.h = IF Len(all) <= array.cap THEN h ELSE Fault(h, "write past the array")
    BY <1>6 DEF Extend
  <2>2. Kept(h, r.h)
    <3>1. Fault(h, "write past the array") \in Heaps
      BY DEF Heaps, Fault, Faults
    <3>2. Kept(h, Fault(h, "write past the array"))
      BY <3>1 DEF Kept, Fault, Heaps
    <3> QED
      BY <2>1, <3>2, KeptSame, Zenon
  <2>3. /\ Len(all) \in Nat
        /\ ElementsGood(d, f, Elements(Len(all), <<Array(array.blk, array.cap, all)>>))
    <3>1. ElementsGood(d, f, Elements(n, <<array>>))
      BY <1>3, <1>4
    <3> HIDE DEF n, array
    <3> QED
      BY <1>3, <3>1, ElementsAppended
  <2>4. Changes(m, x, f) /\ x[o] = new /\ x[q] = Len(all)
    <3> HIDE DEF all, array, new, n, r
    <3> QED
      BY <1>1, <1>2, QuantifierFirst, Zenon
  <2>8. new = <<Array(array.blk, array.cap, all)>>
    OBVIOUS
  <2> HIDE DEF x, all, array, n, r, new
  <2>5. {o, q} \subseteq DOMAIN x
    BY <1>1, <2>4, Zenon DEF Changes
  <2>6. Holds(d, x, f)
    <3>1. x[f.quantifier_offset] \in Nat /\ ElementsGood(d, f, Elements(x[f.quantifier_offset], x[f.offset]))
      BY <2>3, <2>4, <2>8
    <3> QED
      BY <1>2, <2>5, <3>1, RepeatedHolds, Zenon
  <2>7. OfType(d, t, x)
    BY <1>2, <2>4, <2>6, RowAlone, Zenon
  <2> QED
    BY <2>1, <2>2, <2>7, Zenon DEF r
<1> QED
  BY <1>5, <1>6

\* One element is added, or not.
LEMMA ElementParsed ==
    ASSUME NEW d, NEW t, NEW f \in RowsOf(t), f.label = "REPEATED",
           NEW m, OfType(d, t, m), NEW sm, sm.field[1] = f, NEW h \in Heaps, NEW p,
           Honest(h, p.ok, p.h), MayHold(d, f, p.v)
    PROVE  Parsed(d, t, h, Element(sm, m, p))
<1> DEFINE r == Element(sm, m, p)
<1>1. CASE ~ p.ok
  <2>1. r.ok = FALSE /\ r.m = m /\ r.h = p.h
    BY <1>1 DEF Element
  <2>2. Honest(h, FALSE, p.h)
    BY <1>1 DEF Honest
  <2> QED
    BY <2>1, <2>2, Zenon DEF Parsed
<1>2. CASE p.ok
  <2> DEFINE e == <<p.v>>
  <2>1. r = Extend(m, f, p.h, e)
    BY <1>2, Zenon DEF Element
  <2>2. p.ok = TRUE /\ p.h \in Heaps
    BY <1>2 DEF Honest
  <2>3. e \in Seq(Range(e)) /\ DOMAIN e = {1} /\ e[1] = p.v
    BY DEF Range
  <2>4. ElementsGood(d, f, e)
    <3>1. \A k \in DOMAIN e : e[k] = p.v
      BY <2>3
    <3> HIDE DEF e
    <3> QED
      BY <3>1, Zenon DEF ElementsGood, MayHold
  <2> HIDE DEF e, r
  <2>5. r.ok = TRUE /\ OfType(d, t, r.m) /\ Kept(p.h, r.h)
    BY <2>1, <2>2, <2>3, <2>4, ExtendedParsed, Zenon
  <2>6. Honest(h, TRUE, r.h)
    BY <2>2, <2>5, KeptGoes, Zenon
  <2> QED
    BY <2>5, <2>6, Zenon DEF Parsed, r
<1> QED
  BY <1>1, <1>2

\* A list of whatever there is.
LEMMA ListOf ==
    ASSUME NEW n \in Nat, NEW e, DOMAIN e = 1..n, e = [k \in 1..n |-> e[k]]
    PROVE  e \in Seq(Range(e))
<1>1. e \in [1..n -> Range(e)]
  BY DEF Range
<1> QED
  BY <1>1

\* The first byte that ends a varint is one of those given.
LEMMA FirstOfEnds ==
    ASSUME NEW b \in Seq(Byte), NEW most, Ends(b, most) # {}
    PROVE  Min(Ends(b, most)) \in 1..Len(b)
<1> DEFINE Z == Ends(b, most)
<1>1. Z \in SUBSET Nat /\ Z \in SUBSET (1..Len(b))
  BY DEF Ends
<1>2. \E n \in Z : \A m \in Z : n <= m
  <2> HIDE DEF Z
  <2>1. Z # {}
    BY DEF Z
  <2> QED
    BY <1>1, <2>1, Minimal
<1>3. Min(Z) \in Z
  <2> HIDE DEF Z
  <2> QED
    BY <1>2, Zenon DEF Min
<1> QED
  BY <1>1, <1>3

\* scan_varint stays within the data.
LEMMA VarintScanned ==
    ASSUME NEW b \in Seq(Byte)
    PROVE  scan_varint(b) \in 0..Len(b)
<1>1. CASE Ends(b, 10) = {}
  BY <1>1 DEF scan_varint
<1>2. CASE Ends(b, 10) # {}
  <2>1. scan_varint(b) = Min(Ends(b, 10)) /\ Min(Ends(b, 10)) \in 1..Len(b)
    BY <1>2, FirstOfEnds, Zenon DEF scan_varint
  <2> QED
    BY <2>1
<1> QED
  BY <1>1, <1>2

\* Of the varints there is a list.
VarintsLeft == [ok : BOOLEAN, d : Seq(Byte), e : Seq(Seq(Byte))]

\* One varint more is taken from a packed field.
LEMMA VarintTaken ==
    ASSUME NEW r \in VarintsLeft
    PROVE  NextVarint(r, scan_varint(r.d)) \in VarintsLeft
<1> DEFINE s == scan_varint(r.d)
<1>1. r.d \in Seq(Byte) /\ r.e \in Seq(Seq(Byte)) /\ r.ok \in BOOLEAN
  BY DEF VarintsLeft
<1>2. s \in 0..Len(r.d)
  BY <1>1, VarintScanned
<1> HIDE DEF s
<1>3. SubSeq(r.d, s + 1, Len(r.d)) \in Seq(Byte) /\ SubSeq(r.d, 1, s) \in Seq(Byte)
  BY <1>1, <1>2
<1> DEFINE rest == SubSeq(r.d, s + 1, Len(r.d))
           one == SubSeq(r.d, 1, s)
<1> HIDE DEF rest, one
<1>4. Append(r.e, one) \in Seq(Seq(Byte))
  BY <1>1, <1>3 DEF one
<1>5. NextVarint(r, s) = IF r.d = <<>> \/ ~ r.ok THEN r ELSE IF s = 0 THEN [r EXCEPT !.ok = FALSE]
                         ELSE [r EXCEPT !.d = rest, !.e = Append(@, one)]
  BY DEF NextVarint, rest, one
<1>6. [r EXCEPT !.ok = FALSE] \in VarintsLeft
  BY DEF VarintsLeft
<1>7. [r EXCEPT !.d = rest, !.e = Append(@, one)] \in VarintsLeft
  BY <1>1, <1>3, <1>4 DEF VarintsLeft, rest
<1>8. NextVarint(r, s) \in VarintsLeft
  BY <1>5, <1>6, <1>7
<1> QED
  BY <1>8 DEF s

\* The varints of a packed field are a list.
LEMMA VarintsListed ==
    ASSUME NEW b \in Seq(Byte)
    PROVE  Varints(b) \in VarintsLeft
<1> DEFINE N == Len(b)
           start == [ok |-> TRUE, d |-> b, e |-> <<>>]
           P(r) == NextVarint(r, scan_varint(r.d))
           F(f) == [k \in 0..N |-> IF k = 0 THEN start ELSE P(f[k - 1])]
           round == CHOOSE f : f = F(f)
           g == [k \in 1..N |-> [r \in VarintsLeft |-> P(r)]]
<1>1. Varints(b) = round[N]
  BY DEF Varints
<1>2. N \in Nat
  OBVIOUS
<1>3. start \in VarintsLeft
  BY DEF VarintsLeft
<1>4. /\ g \in [1..N -> [VarintsLeft -> VarintsLeft]]
      /\ \A k \in 1..N, r \in VarintsLeft : g[k][r] = P(r)
  BY VarintTaken
<1>13. \A r \in VarintsLeft : P(r) \in VarintsLeft
  BY VarintTaken
<1> HIDE DEF g, N, start, P
<1>5. PICK f : Recursive(f, N, VarintsLeft, start, g)
  BY <1>2, <1>3, <1>4, Recursion
<1>6. f \in [0..N -> VarintsLeft] /\ f[0] = start /\ \A k \in 1..N : f[k] = g[k][f[k - 1]]
  BY <1>5, Zenon DEF Recursive
<1>7. ASSUME NEW k \in 1..N
      PROVE  f[k] = P(f[k - 1])
  BY <1>2, <1>4, <1>6
<1>8. f = F(f)
  BY <1>2, <1>6, <1>7
<1>9. round = F(round)
  BY <1>8, Zenon
<1> HIDE DEF round
<1> DEFINE S == {k \in 0..N : round[k] \in VarintsLeft}
<1>10. round[0] = start /\ \A k \in 1..N : round[k] = P(round[k - 1])
  BY <1>2, <1>9
<1>11. 0 \in S /\ \A k \in 1..N : k - 1 \in S => k \in S
  BY <1>2, <1>3, <1>10, <1>13
<1> HIDE DEF S
<1>12. N \in S
  <2>1. \A k \in 0..N : k \in S
    BY <1>2, <1>11, Along
  <2> QED
    BY <1>2, <2>1
<1> QED
  BY <1>1, <1>12 DEF S

\* A list of elements is added to a repeated field.
LEMMA ListTaken ==
    ASSUME NEW d, NEW t, NEW f \in RowsOf(t), f.label = "REPEATED", f.type # "MESSAGE",
           NEW m, OfType(d, t, m), NEW h \in Heaps, NEW parts, NEW n \in Nat, DOMAIN parts.e = 1..n
    PROVE  Parsed(d, t, h, ExtendParts(f, m, h, parts))
<1> DEFINE r == ExtendParts(f, m, h, parts)
           e == [k \in DOMAIN parts.e |-> scalar_parse(f.type, parts.e[k])]
<1>1. Honest(h, TRUE, h) /\ Honest(h, FALSE, h)
  <2>1. FALSE \in BOOLEAN /\ TRUE \in BOOLEAN
    OBVIOUS
  <2> QED
    BY <2>1, HonestSame, Zenon
<1>2. CASE ~ parts.ok
  <2>1. r.ok = FALSE /\ r.m = m /\ r.h = h
    BY <1>2 DEF ExtendParts
  <2> QED
    BY <1>1, <2>1, Zenon DEF Parsed
<1>3. CASE parts.ok
  <2>1. r = Extend(m, f, h, e)
    BY <1>3, Zenon DEF ExtendParts
  <2>2. DOMAIN e = 1..n /\ e = [k \in 1..n |-> e[k]]
    OBVIOUS
  <2> HIDE DEF e, r
  <2>3. e \in Seq(Range(e))
    BY <2>2, ListOf
  <2>4. ElementsGood(d, f, e)
    BY DEF ElementsGood
  <2>5. r.ok = TRUE /\ OfType(d, t, r.m) /\ Kept(h, r.h)
    BY <2>1, <2>3, <2>4, ExtendedParsed, Zenon
  <2>6. Honest(h, TRUE, r.h)
    BY <1>1, <2>5, KeptGoes, Zenon
  <2> QED
    BY <2>5, <2>6, Zenon DEF Parsed, r
<1> QED
  BY <1>2, <1>3

\* The parts of a packed field are a list, whatever the type.
LEMMA PartsListed ==
    ASSUME NEW type, NEW b \in Seq(Byte)
    PROVE  \E n \in Nat : DOMAIN Parts(type, b, get_type_min_size(type)).e = 1..n
<1> DEFINE size == get_type_min_size(type)
           p == Parts(type, b, size)
<1>1. CASE type \in Fixed32 \cup Fixed64 \cup {"BOOL"}
  <2>1. DOMAIN p.e = 1..(Len(b) \div size)
    BY <1>1 DEF Parts
  <2>2. size = 4 \/ size = 8 \/ size = 1
    BY DEF get_type_min_size
  <2> HIDE DEF size, p
  <2>3. Len(b) \div size \in Nat
    BY <2>2
  <2> QED
    BY <2>1, <2>3 DEF p, size
<1>2. CASE type \notin Fixed32 \cup Fixed64 \cup {"BOOL"}
  <2>1. p = Varints(b)
    BY <1>2, Zenon DEF Parts
  <2>2. Varints(b).e \in Seq(Seq(Byte))
    BY VarintsListed DEF VarintsLeft
  <2> HIDE DEF p
  <2>3. p.e \in Seq(Seq(Byte))
    BY <2>1, <2>2
  <2>4. DOMAIN p.e = 1..Len(p.e) /\ Len(p.e) \in Nat
    BY <2>3
  <2> QED
    BY <2>4 DEF p
<1> QED
  BY <1>1, <1>2

\* parse_packed_repeated_member.
LEMMA PackedParsed ==
    ASSUME NEW d, NEW t, NEW f \in RowsOf(t), f.label = "REPEATED", NEW m, OfType(d, t, m),
           NEW sm, sm.data \in Seq(Byte), sm.pref \in Nat, sm.field = <<f>>, IsPackedMember(sm),
           NEW h \in Heaps
    PROVE  Parsed(d, t, h, parse_packed_repeated_member(sm, m, h))
<1> DEFINE b == SubSeq(sm.data, sm.pref + 1, Len(sm.data))
           parts == Parts(f.type, b, get_type_min_size(f.type))
<1>1. b \in Seq(Byte) /\ sm.field[1] = f
  BY RestOfData
<1>2. parse_packed_repeated_member(sm, m, h) = ExtendParts(f, m, h, parts)
  BY <1>1, Zenon DEF parse_packed_repeated_member
<1> HIDE DEF b
<1>3. f.type # "MESSAGE"
  <2>1. IsField(f)
    BY RowSlots, Zenon DEF Laid
  <2>2. Packed(f) => f.type \notin Text \cup {"MESSAGE"}
    BY <2>1, Zenon DEF IsField
  <2>3. Packed(f) \/ is_packable_type(f.type)
    BY <1>1, Zenon DEF IsPackedMember
  <2> QED
    BY <2>2, <2>3 DEF is_packable_type, Pointer
<1>4. PICK n \in Nat : DOMAIN parts.e = 1..n
  BY <1>1, PartsListed, Zenon
<1> HIDE DEF parts
<1> QED
  BY <1>2, <1>3, <1>4, ListTaken

\* What is not a field's changes.
LEMMA OtherChanged ==
    ASSUME NEW d, NEW t, NEW m, OfType(d, t, m), NEW x, Headed(x), x.descriptor = t,
           DOMAIN x = DOMAIN m, \A s \in DOMAIN m : s \notin Header \/ s = "descriptor" => x[s] = m[s]
    PROVE  OfType(d, t, x)
<1>1. ASSUME NEW f \in RowsOf(t)
      PROVE  Holds(d, x, f)
  <2>1. {f.offset, f.quantifier_offset} \subseteq DOMAIN m /\ Holds(d, m, f) /\ Laid(f)
    BY RowSlots, Zenon
  <2>2. f.offset \notin Header /\ (f.quantifier_offset \notin Header \/ f.quantifier_offset = "descriptor")
    BY <2>1, Zenon DEF Laid
  <2>3. x[f.offset] = m[f.offset] /\ x[f.quantifier_offset] = m[f.quantifier_offset]
    BY <2>1, <2>2, Zenon
  <2>4. x.descriptor = m.descriptor
    BY Zenon DEF OfType
  <2> QED
    BY <2>1, <2>3, <2>4, HoldsSame, Zenon
<1> QED
  BY <1>1, WholeRows, Zenon DEF OfType

\* parse_unknown_member.
LEMMA UnknownParsed ==
    ASSUME NEW d, NEW t, NEW m, OfType(d, t, m), NEW sm, Scanned(t, sm), NEW h \in Heaps
    PROVE  Parsed(d, t, h, parse_unknown_member(sm, m, h))
<1> DEFINE new == do_alloc(h)
           field == [tag |-> sm.tag, wire_type |-> sm.wire_type, blk |-> new.ptr, s |-> sm.data]
           x == [m EXCEPT !.unknown = Append(@, field)]
           r == parse_unknown_member(sm, m, h)
<1>1. Honest(h, new.ptr # 0, new.h) /\ new.ptr \in Nat
  BY AllocGoes
<1>2. r.ok = (new.ptr # 0) /\ r.h = new.h /\ r.m = x
  BY DEF parse_unknown_member, Unknown
<1>3. field \in UnknownRecords
  BY <1>1 DEF UnknownRecords, Scanned
<1> HIDE DEF new, field, r
<1>4. Headed(m) /\ m.descriptor = t
  BY Zenon DEF OfType, Whole
<1>5. /\ m.descriptor \in DOMAIN Descriptors /\ m.blk \in Nat /\ m.unknown_fields \in Seq(Nat)
      /\ m.unknown \in Seq(UnknownRecords)
      /\ {"descriptor", "blk", "unknown_fields", "unknown"} \subseteq DOMAIN m
  BY <1>4 DEF Headed, Header
<1>6. Append(m.unknown, field) \in Seq(UnknownRecords)
  BY <1>3, <1>5
<1>7. /\ x.descriptor = m.descriptor /\ x.blk = m.blk /\ x.unknown_fields = m.unknown_fields
      /\ x.unknown = Append(m.unknown, field) /\ DOMAIN x = DOMAIN m
      /\ \A s \in DOMAIN m : s # "unknown" => x[s] = m[s]
  BY <1>5
<1> HIDE DEF x
<1>8. Headed(x)
  BY <1>4, <1>5, <1>6, <1>7 DEF Headed
<1>9. "unknown" \in Header
  BY DEF Header
<1>10. OfType(d, t, x)
  <2>1. \A s \in DOMAIN m : s \notin Header \/ s = "descriptor" => x[s] = m[s]
    BY <1>7, <1>9
  <2> QED
    BY <1>4, <1>7, <1>8, <2>1, OtherChanged, Zenon
<1>11. Honest(h, r.ok, r.h)
  BY <1>1, <1>2
<1> QED
  BY <1>2, <1>10, <1>11, Zenon DEF Parsed, r

\* The case of a oneof that is set is the number of one of its members.
LEMMA MemberInForce ==
    ASSUME NEW d, NEW t, NEW f \in RowsOf(t), InOneof(f), NEW m, OfType(d, t, m),
           m[f.quantifier_offset] # 0
    PROVE  \E g \in RowsOf(t) :
              /\ InOneof(g) /\ g.id = m[f.quantifier_offset] /\ g.offset = f.offset
              /\ g.quantifier_offset = f.quantifier_offset
              /\ get_field(Descriptors[t], m[f.quantifier_offset])[1] = g
<1> DEFINE c == m[f.quantifier_offset]
<1>1. Holds(d, m, f) /\ t \in DOMAIN Descriptors /\ m.descriptor = t
  BY RowSlots, Zenon DEF OfType
<1>2. Sharing(m, f, c)
  BY <1>1, Zenon DEF Holds, SlotGood, CaseGood
<1>3. PICK i \in DOMAIN Descriptors[t].fields :
         LET g == Descriptors[t].fields[i]
         IN  /\ InOneof(g) /\ g.id = c
             /\ g.offset = f.offset /\ g.quantifier_offset = f.quantifier_offset
  BY <1>1, <1>2, Zenon DEF Sharing, FieldsOf
<1> DEFINE g == Descriptors[t].fields[i]
<1>4. g \in RowsOf(t) /\ g.id = c
  BY <1>3, Zenon DEF RowsOf
<1>5. c \in Int
  BY <1>1, <1>4, RowLaid
<1>6. get_field(Descriptors[t], c) = <<g>>
  BY <1>1, <1>4, <1>5, GetField, ZenonT(30)
<1>7. get_field(Descriptors[t], c)[1] = g
  BY <1>6
<1> QED
  BY <1>3, <1>4, <1>7, Zenon

\* Freeing the member that was in force allocates nothing.
LEMMA OldMemberKept ==
    ASSUME NEW d \in 0..MaxNesting, NEW t, NEW g \in RowsOf(t), InOneof(g), NEW m, OfType(d, t, m),
           m[g.quantifier_offset] = g.id, NEW h \in Heaps
    PROVE  Kept(h, free_old_member(g, m[g.offset], h))
<1> DEFINE p == m[g.offset]
           r == free_old_member(g, p, h)
<1>1. CASE g.type \in Text
  <2>1. r = free_text(h, p, g.default_value)
    BY <1>1 DEF free_old_member, Text
  <2> QED
    BY <2>1, TextKept, Zenon
<1>2. CASE g.type = "MESSAGE"
  <2>1. r = IF p = NULL \/ p = g.default_value THEN h ELSE protobuf_c_message_free_unpacked(p[1], h)
    BY <1>2 DEF free_old_member, Text
  <2>2. CASE p = NULL \/ p = g.default_value
    BY <2>1, <2>2, KeptSame, Zenon
  <2>3. CASE ~ (p = NULL \/ p = g.default_value)
    <3>1. {g.offset, g.quantifier_offset} \subseteq DOMAIN m /\ Holds(d, m, g) /\ Laid(g)
      BY RowSlots, Zenon
    <3>2. Under(d, g, p[1])
      BY <1>2, <2>3, <3>1, MemberHolds, Zenon DEF Laid
    <3>3. \A z : Under(d, g, z) => d # 0 /\ Whole(d - 1, z)
      BY UnderWhole
    <3>4. d # 0 => d - 1 \in 0..MaxNesting
      BY NestingAssumption
    <3>5. d - 1 \in 0..MaxNesting /\ Whole(d - 1, p[1])
      BY <3>2, <3>3, <3>4, Zenon
    <3> QED
      BY <2>1, <2>3, <3>5, FreeUnpackedKept, Zenon
  <2> QED
    BY <2>2, <2>3
<1>3. CASE g.type \notin Text \cup {"MESSAGE"}
  <2>1. r = h
    BY <1>3 DEF free_old_member, Text
  <2> QED
    BY <2>1, KeptSame, Zenon
<1> QED
  BY <1>1, <1>2, <1>3

\* A member of a oneof is there, or none is, its case unchanged.
LEMMA MemberStored ==
    ASSUME NEW d, NEW t, NEW f \in RowsOf(t), InOneof(f), NEW m, OfType(d, t, m),
           NEW x, Changes(m, x, f), x[f.quantifier_offset] = f.id, MayHold(d, f, x[f.offset])
    PROVE  OfType(d, t, x)
<1>1. {f.offset, f.quantifier_offset} \subseteq DOMAIN m /\ t \in DOMAIN Descriptors
  BY RowSlots, Zenon
<1>2. FieldsOf(x) = Descriptors[t].fields
  <2>1. FieldsOf(m) = Descriptors[t].fields /\ Headed(m)
    BY Zenon DEF FieldsOf, Whole, OfType
  <2>2. PICK i \in DOMAIN FieldsOf(m) : f = FieldsOf(m)[i]
    BY <2>1, Zenon DEF RowsOf
  <2> QED
    BY <2>1, <2>2, ChangedHeader, Zenon
<1>3. PICK i \in DOMAIN FieldsOf(x) : f = FieldsOf(x)[i]
  BY <1>2, Zenon DEF RowsOf
<1>4. ASSUME NEW g \in RowsOf(t), g.offset = f.offset
      PROVE  Holds(d, x, g)
  <2>1. /\ InOneof(g) /\ g.quantifier_offset = f.quantifier_offset
        /\ g.label \in {"OPTIONAL", "NONE"}
    BY <1>1, <1>4, MembersShare, Zenon
  <2>2. {g.offset, g.quantifier_offset} \subseteq DOMAIN x
    BY <1>1, <1>4, <2>1, Zenon DEF Changes
  <2>3. CaseGood(x, g)
    BY <1>3, <1>4, <2>1, Zenon DEF CaseGood, Sharing
  <2>4. g.id = f.id => g = f
    <3>1. PICK j \in DOMAIN Descriptors[t].fields : g = Descriptors[t].fields[j]
      BY Zenon DEF RowsOf
    <3>2. f.id \in Int
      BY <1>1, RowLaid, Zenon
    <3>3. \A a, b \in DOMAIN Descriptors[t].fields :
             Descriptors[t].fields[a].id = f.id /\ Descriptors[t].fields[b].id = f.id => a = b
      BY <1>1, <3>2, RowOfNumber, Zenon
    <3>4. i \in DOMAIN Descriptors[t].fields /\ f = Descriptors[t].fields[i]
      BY <1>2, <1>3, Zenon
    <3> QED
      BY <3>1, <3>3, <3>4, Zenon
  <2>5. g.type = "MESSAGE" /\ x[g.quantifier_offset] = g.id /\ x[g.offset] # NULL
           => Under(d, g, x[g.offset][1])
    BY <1>4, <2>1, <2>4, Zenon DEF MayHold
  <2> QED
    BY <2>1, <2>2, <2>3, <2>5, MemberHolds, Zenon
<1> QED
  BY <1>4, RowChanged, Zenon

\* A oneof is emptied, its case as it was.
LEMMA MemberEmptied ==
    ASSUME NEW d, NEW t, NEW f \in RowsOf(t), InOneof(f), NEW m, OfType(d, t, m),
           NEW x, Changes(m, x, f), x[f.quantifier_offset] = m[f.quantifier_offset], x[f.offset] = NULL
    PROVE  OfType(d, t, x)
<1>1. {f.offset, f.quantifier_offset} \subseteq DOMAIN m /\ t \in DOMAIN Descriptors
  BY RowSlots, Zenon
<1>2. FieldsOf(x) = FieldsOf(m)
  <2>1. FieldsOf(m) = Descriptors[t].fields /\ Headed(m)
    BY Zenon DEF FieldsOf, Whole, OfType
  <2>2. PICK i \in DOMAIN FieldsOf(m) : f = FieldsOf(m)[i]
    BY <2>1, Zenon DEF RowsOf
  <2> QED
    BY <2>1, <2>2, ChangedHeader, Zenon
<1>3. ASSUME NEW g \in RowsOf(t), g.offset = f.offset
      PROVE  Holds(d, x, g)
  <2>1. /\ InOneof(g) /\ g.quantifier_offset = f.quantifier_offset
        /\ g.label \in {"OPTIONAL", "NONE"}
    BY <1>1, <1>3, MembersShare, Zenon
  <2>2. {g.offset, g.quantifier_offset} \subseteq DOMAIN x
    BY <1>1, <1>3, <2>1, Zenon DEF Changes
  <2>3. CaseGood(m, g)
    <3>1. Holds(d, m, g)
      BY RowSlots, Zenon
    <3> QED
      BY <2>1, <3>1, Zenon DEF Holds, SlotGood
  <2>4. CaseGood(x, g)
    BY <1>2, <1>3, <2>1, <2>3, Zenon DEF CaseGood, Sharing
  <2> QED
    BY <1>3, <2>1, <2>2, <2>4, MemberHolds, Zenon
<1> QED
  BY <1>3, RowChanged, Zenon

\* A member of a oneof is stored, or nothing when that failed.
LEMMA StoredMember ==
    ASSUME NEW d, NEW t, NEW f \in RowsOf(t), InOneof(f), NEW m, OfType(d, t, m), NEW h, NEW p,
           Honest(h, p.ok, p.h), NEW v, p.ok => MayHold(d, f, v), ~ p.ok => v = NULL
    PROVE  Parsed(d, t, h, Stored(f, m, [ok |-> p.ok, h |-> p.h, v |-> v], f.id))
<1> DEFINE o == f.offset
           q == f.quantifier_offset
           r == Stored(f, m, [ok |-> p.ok, h |-> p.h, v |-> v], f.id)
           both == [m EXCEPT ![o] = v, ![q] = f.id]
           value == [m EXCEPT ![o] = v]
<1>1. {o, q} \subseteq DOMAIN m /\ o # q /\ o # "descriptor" /\ Laid(f)
  BY RowSlots, Zenon
<1>2. q # "descriptor"
  BY <1>1, Zenon DEF Laid
<1>3. r.ok = p.ok /\ r.h = p.h /\ r.m = IF p.ok THEN both ELSE value
  BY <1>2 DEF Stored
<1>4. Changes(m, both, f) /\ both[o] = v /\ both[q] = f.id
  BY <1>1, <1>2, OffsetFirst, Zenon
<1>5. Changes(m, value, f) /\ value[o] = v /\ value[q] = m[q]
  BY <1>1, ValueSlot, Zenon
<1> HIDE DEF r, both, value
<1>6. p.ok => OfType(d, t, both)
  BY <1>4, MemberStored, Zenon
<1>7. ~ p.ok => OfType(d, t, value)
  BY <1>5, MemberEmptied, Zenon
<1>8. OfType(d, t, r.m)
  BY <1>3, <1>6, <1>7, Zenon
<1> QED
  BY <1>3, <1>8, Zenon DEF Parsed, r

\* parse_oneof_member.
LEMMA OneofParsed ==
    ASSUME NEW unpacked, NEW d \in 0..MaxNesting, UnpacksUnder(unpacked, d),
           NEW t, NEW f \in RowsOf(t), InOneof(f), NEW m, OfType(d, t, m),
           NEW sm, Scanned(t, sm), sm.field = <<f>>, sm.tag = f.id, NEW h \in Heaps
    PROVE  Parsed(d, t, h, parse_oneof_member(unpacked, sm, m, h))
<1> DEFINE c == m[f.quantifier_offset]
           old == get_field(Descriptors[m.descriptor], c)[1]
           cleared == IF c = 0 THEN h ELSE free_old_member(old, m[f.offset], h)
           p == parse_required_member(unpacked, sm, NULL, cleared, TRUE)
           v == IF p.ok \/ c = 0 THEN p.v ELSE Zero(old)
           r == parse_oneof_member(unpacked, sm, m, h)
<1>1. sm.field[1] = f /\ Zero(f) = NULL /\ m.descriptor = t /\ t \in DOMAIN Descriptors
  <2>1. t \in DOMAIN Descriptors /\ m.descriptor = t
    BY RowSlots, Zenon DEF OfType
  <2>2. sm.field[1] = f
    OBVIOUS
  <2> QED
    BY <2>1, <2>2, Zenon DEF Zero
<1>2. r = Stored(f, m, [ok |-> p.ok, h |-> p.h, v |-> v], f.id)
  BY <1>1, Zenon DEF parse_oneof_member
<1>3. c # 0 => Zero(old) = NULL /\ Kept(h, free_old_member(old, m[f.offset], h))
  <2> SUFFICES ASSUME c # 0
               PROVE  Zero(old) = NULL /\ Kept(h, free_old_member(old, m[f.offset], h))
    OBVIOUS
  <2>4. m[f.quantifier_offset] # 0
    OBVIOUS
  <2> HIDE DEF c, old, cleared, p, v, r
  <2>1. PICK g \in RowsOf(t) :
              /\ InOneof(g) /\ g.id = m[f.quantifier_offset] /\ g.offset = f.offset
              /\ g.quantifier_offset = f.quantifier_offset
              /\ get_field(Descriptors[t], m[f.quantifier_offset])[1] = g
    BY <2>4, MemberInForce
  <2>2. old = g
    BY <1>1, <2>1, Zenon DEF old, c
  <2>3. Kept(h, free_old_member(g, m[g.offset], h))
    BY <2>1, OldMemberKept, Zenon
  <2> QED
    BY <2>1, <2>2, <2>3, Zenon DEF Zero
<1>4. Kept(h, cleared)
  BY <1>3, KeptSame, Zenon
<1>5. cleared \in Heaps /\ Honest(h, TRUE, cleared)
  BY <1>4, StillGoes, Zenon DEF Kept
<1>6. MayHold(d, f, NULL) /\ sm.data \in Seq(Byte) /\ sm.pref \in Nat
  BY Zenon DEF MayHold, Scanned
<1> HIDE DEF cleared, old
<1>7. ParsedWell(d, f, cleared, NULL, p)
  BY <1>1, <1>5, <1>6, RequiredParsed, Zenon
<1> HIDE DEF p
<1>8. Honest(cleared, p.ok, p.h) /\ MayHold(d, f, p.v) /\ (~ p.ok => p.v = NULL) /\ p.ok \in BOOLEAN
  BY <1>7, Zenon DEF ParsedWell, Honest
<1>9. Honest(h, p.ok, p.h)
  BY <1>5, <1>8, GoesOn, Zenon
<1>10. (p.ok => MayHold(d, f, v)) /\ (~ p.ok => v = NULL)
  BY <1>3, <1>8, Zenon
<1> HIDE DEF v, c, r
<1> QED
  BY <1>2, <1>9, <1>10, StoredMember, Zenon DEF r

\* parse_member: the message stays whole, whether the member was parsed or not.
LEMMA MemberParsed ==
    ASSUME NEW unpacked, NEW d \in 0..MaxNesting, UnpacksUnder(unpacked, d),
           NEW t, NEW m, OfType(d, t, m), NEW sm, Scanned(t, sm), NEW h \in Heaps
    PROVE  Parsed(d, t, h, parse_member(unpacked, sm, m, h))
<1> DEFINE r == parse_member(unpacked, sm, m, h)
<1>1. CASE sm.field = NULL
  <2>1. r = parse_unknown_member(sm, m, h)
    BY <1>1, Zenon DEF parse_member
  <2> QED
    BY <2>1, UnknownParsed, Zenon
<1>2. ASSUME NEW f \in RowsOf(t), sm.field = <<f>>, f.id = sm.tag
      PROVE  Parsed(d, t, h, r)
  <2>1. sm.field[1] = f /\ sm.field # NULL
    BY <1>2 DEF NULL
  <2>2. Laid(f) /\ t \in DOMAIN Descriptors
    BY RowSlots, Zenon
  <2>3. f.label \in Labels /\ (InOneof(f) => f.label \in {"OPTIONAL", "NONE"})
    BY <2>2, Zenon DEF Laid, IsField
  <2>4. sm.data \in Seq(Byte) /\ sm.pref \in Nat
    BY Zenon DEF Scanned
  <2>5. CASE f.label = "REQUIRED"
    <3> DEFINE p == parse_required_member(unpacked, sm, m[f.offset], h, TRUE)
    <3>1. r = RequiredMember(sm, m, p)
      BY <2>1, <2>5 DEF parse_member
    <3>2. ~ InOneof(f) /\ f.label # "REPEATED"
      BY <2>3, <2>5
    <3>3. MayHold(d, f, m[f.offset])
      BY <3>2, RowMayHold, Zenon
    <3>4. ParsedWell(d, f, h, m[f.offset], p)
      BY <1>2, <2>2, <2>4, <3>3, RequiredParsed, Zenon
    <3> HIDE DEF p, r
    <3>5. Honest(h, p.ok, p.h) /\ MayHold(d, f, p.v)
      BY <3>4, Zenon DEF ParsedWell
    <3> QED
      BY <2>1, <3>1, <3>2, <3>5, RequiredMemberParsed, Zenon DEF r
  <2>6. CASE f.label \in {"OPTIONAL", "NONE"} /\ InOneof(f)
    <3>1. r = parse_oneof_member(unpacked, sm, m, h)
      BY <2>1, <2>6 DEF parse_member
    <3>2. sm.tag = f.id
      BY <1>2
    <3> QED
      BY <1>2, <2>6, <3>1, <3>2, OneofParsed, Zenon
  <2>7. CASE f.label \in {"OPTIONAL", "NONE"} /\ ~ InOneof(f)
    <3> DEFINE p == parse_required_member(unpacked, sm, m[f.offset], h, TRUE)
    <3>1. r = Stored(f, m, p, TRUE)
      <4>1. r = parse_optional_member(unpacked, sm, m, h)
        BY <2>1, <2>7 DEF parse_member
      <4> QED
        BY <2>1, <4>1, Zenon DEF parse_optional_member
    <3>2. ~ InOneof(f) /\ f.label # "REPEATED"
      BY <2>7
    <3>3. MayHold(d, f, m[f.offset])
      BY <3>2, RowMayHold, Zenon
    <3>4. ParsedWell(d, f, h, m[f.offset], p)
      BY <1>2, <2>2, <2>4, <3>3, RequiredParsed, Zenon
    <3> HIDE DEF p, r
    <3>5. Honest(h, p.ok, p.h) /\ MayHold(d, f, p.v)
      BY <3>4, Zenon DEF ParsedWell
    <3> QED
      BY <3>1, <3>2, <3>5, StoredParsed, Zenon DEF r
  <2>8. CASE f.label = "REPEATED" /\ IsPackedMember(sm)
    <3>1. r = parse_packed_repeated_member(sm, m, h)
      BY <2>1, <2>8 DEF parse_member
    <3> QED
      BY <1>2, <2>4, <2>8, <3>1, PackedParsed, Zenon
  <2>9. CASE f.label = "REPEATED" /\ ~ IsPackedMember(sm)
    <3> DEFINE p == parse_required_member(unpacked, sm, NULL, h, FALSE)
    <3>1. r = Element(sm, m, p)
      <4>1. r = parse_repeated_member(unpacked, sm, m, h)
        BY <2>1, <2>9 DEF parse_member
      <4> QED
        BY <4>1, Zenon DEF parse_repeated_member
    <3>2. MayHold(d, f, NULL)
      BY Zenon DEF MayHold
    <3>3. ParsedWell(d, f, h, NULL, p)
      BY <1>2, <2>2, <2>4, <3>2, RequiredParsed, Zenon
    <3> HIDE DEF p, r
    <3>4. Honest(h, p.ok, p.h) /\ MayHold(d, f, p.v)
      BY <3>3, Zenon DEF ParsedWell
    <3> QED
      BY <2>1, <2>9, <3>1, <3>4, ElementParsed, Zenon DEF r
  <2> QED
    BY <2>3, <2>5, <2>6, <2>7, <2>8, <2>9 DEF Labels
<1>3. sm.field = NULL \/ \E f \in RowsOf(t) : sm.field = <<f>> /\ f.id = sm.tag
  BY Zenon DEF Scanned
<1> QED
  BY <1>1, <1>2, <1>3

-----------------------------------------------------------------------------
(* Parsing the members of a message. *)

\* The rounds of the parse.
LEMMA ParseRounds ==
    ASSUME NEW unpacked, NEW s, Len(s.members) \in Nat
    PROVE  \E loop : /\ loop[0] = s
                     /\ \A k \in 1..Len(s.members) : loop[k] = parse_next(unpacked, loop[k - 1], s.members[k])
                     /\ parse_members(unpacked, s) = loop[Len(s.members)]
<1> DEFINE N == Len(s.members)
           G(k, f) == IF k = 0 THEN s ELSE parse_next(unpacked, f[k - 1], s.members[k])
           R(j, f) == f = [k \in 0..j |-> G(k, f)]
           loop == CHOOSE f : R(N, f)
           S == {j \in Nat : \E f : R(j, f)}
<1>1. N \in Nat
  OBVIOUS
<1>2. parse_members(unpacked, s) = loop[N]
  BY DEF parse_members
<1>3. \A k, f, g : (k # 0 => f[k - 1] = g[k - 1]) => G(k, f) = G(k, g)
  BY Zenon
<1>4. (\A f : G(0, f) = s)
      /\ \A k, f : k # 0 => G(k, f) = parse_next(unpacked, f[k - 1], s.members[k])
  BY Zenon
<1> HIDE DEF G, N
<1>5. 0 \in S
  <2>1. \A k \in 0..0 : k = 0
    OBVIOUS
  <2>2. [k \in 0..0 |-> G(0, <<>>)] = [k \in 0..0 |-> G(k, [i \in 0..0 |-> G(0, <<>>)])]
    BY <1>3, <2>1, Zenon
  <2> QED
    BY <2>2
<1>6. ASSUME NEW j \in S
      PROVE  j + 1 \in S
  <2>1. PICK f : R(j, f)
    OBVIOUS
  <2> DEFINE g == [k \in 0..(j + 1) |-> G(k, f)]
  <2>2. \A k \in 0..(j + 1) : k # 0 => k - 1 \in 0..j /\ k - 1 \in 0..(j + 1)
    OBVIOUS
  <2>3. \A k \in 0..(j + 1) : k # 0 => f[k - 1] = g[k - 1]
    BY <2>1, <2>2, Zenon
  <2>4. \A k \in 0..(j + 1) : G(k, f) = G(k, g)
    BY <1>3, <2>3, Zenon
  <2>5. R(j + 1, g)
    BY <2>4, Zenon
  <2>6. j \in Nat /\ j + 1 \in Nat
    OBVIOUS
  <2> HIDE DEF g, R
  <2> QED
    BY <2>5, <2>6, Zenon
<1> HIDE DEF S
<1>7. N \in S
  BY <1>1, <1>5, <1>6, Induction DEF S
<1>8. R(N, loop)
  BY <1>7, Zenon DEF S
<1> HIDE DEF loop
<1>9. \A k \in 0..N : loop[k] = G(k, loop)
  BY <1>8, Zenon
<1>10. 0 \in 0..N /\ \A k \in 1..N : k \in 0..N /\ k # 0
  BY <1>1
<1>11. loop[0] = s /\ \A k \in 1..N : loop[k] = parse_next(unpacked, loop[k - 1], s.members[k])
  BY <1>4, <1>9, <1>10, Zenon
<1> QED
  BY <1>2, <1>11, Zenon DEF N

\* What a scan goes by.
ScanState == {"ok", "at", "h", "members", "m", "slabs", "in_slab_index", "n_unknown", "bitmap", "last_field"}
IsScan(s) == DOMAIN s = ScanState
\* From s on: ok is as it was or went down, and the message is whole.
Going(d, t, s, r) ==
    /\ IsScan(r) /\ r.slabs = s.slabs
    /\ Honest(s.h, r.ok, r.h) /\ (r.ok => s.ok) /\ OfType(d, t, r.m)

\* One member more.
LEMMA NextParsed ==
    ASSUME NEW unpacked, NEW d \in 0..MaxNesting, UnpacksUnder(unpacked, d),
           NEW t, NEW s, s.h \in Heaps, NEW a, Going(d, t, s, a), NEW sm, Scanned(t, sm)
    PROVE  Going(d, t, s, parse_next(unpacked, a, sm))
<1> DEFINE r == parse_next(unpacked, a, sm)
           p == parse_member(unpacked, sm, a.m, a.h)
<1>1. CASE ~ a.ok
  <2>1. r = a
    BY <1>1, Zenon DEF parse_next
  <2> QED
    BY <2>1
<1>2. CASE a.ok
  <2>1. r = [a EXCEPT !.ok = p.ok, !.m = p.m, !.h = p.h]
    BY <1>2, Zenon DEF parse_next, ParsedMember
  <2>2. IsScan(a) /\ a.h \in Heaps /\ OfType(d, t, a.m)
    BY Zenon DEF Going, Honest
  <2>3. Parsed(d, t, a.h, p)
    BY <2>2, MemberParsed, Zenon
  <2> HIDE DEF p, r
  <2>4. /\ r.ok = p.ok /\ r.m = p.m /\ r.h = p.h /\ r.slabs = a.slabs /\ DOMAIN r = DOMAIN a
    BY <2>1, <2>2 DEF IsScan, ScanState
  <2>5. Honest(a.h, p.ok, p.h) /\ OfType(d, t, p.m)
    BY <2>3, Zenon DEF Parsed
  <2>6. Honest(s.h, a.ok, a.h) /\ (a.ok => s.ok) /\ a.slabs = s.slabs
    BY Zenon DEF Going
  <2>7. Honest(s.h, p.ok, p.h)
    BY <1>2, <2>5, <2>6, GoesOn, Zenon
  <2> QED
    BY <1>2, <2>2, <2>4, <2>5, <2>6, <2>7, Zenon DEF Going, IsScan, r
<1> QED
  BY <1>1, <1>2

\* All members.
LEMMA MembersParsed ==
    ASSUME NEW unpacked, NEW d \in 0..MaxNesting, UnpacksUnder(unpacked, d),
           NEW t, NEW s, s.h \in Heaps, s.ok \in BOOLEAN, IsScan(s), OfType(d, t, s.m),
           Len(s.members) \in Nat, \A k \in 1..Len(s.members) : Scanned(t, s.members[k])
    PROVE  Going(d, t, s, parse_members(unpacked, s))
<1> DEFINE N == Len(s.members)
<1>1. PICK loop : /\ loop[0] = s
                  /\ \A k \in 1..N : loop[k] = parse_next(unpacked, loop[k - 1], s.members[k])
                  /\ parse_members(unpacked, s) = loop[N]
  BY ParseRounds
<1> DEFINE S == {k \in 0..N : Going(d, t, s, loop[k])}
<1>2. Honest(s.h, s.ok, s.h)
  BY HonestSame, Zenon
<1>3. Going(d, t, s, s)
  BY <1>2, Zenon DEF Going
<1>4. \A k \in 1..N : Going(d, t, s, loop[k - 1]) => Going(d, t, s, loop[k])
  BY <1>1, NextParsed, Zenon
<1> HIDE DEF N
<1>5. N \in Nat /\ 0 \in 0..N /\ \A k \in 1..N : k \in 0..N
  BY DEF N
<1>6. 0 \in S /\ \A k \in 1..N : k - 1 \in S => k \in S
  BY <1>1, <1>3, <1>4, <1>5, Zenon
<1> HIDE DEF S
<1>7. \A k \in 0..N : k \in S
  BY <1>5, <1>6, Along
<1>8. N \in S
  BY <1>5, <1>7
<1> QED
  BY <1>1, <1>8, Zenon DEF S

-----------------------------------------------------------------------------
(* The scan: of a message nothing is there but counts. *)

BareSlot(m, f) ==
    /\ {f.offset, f.quantifier_offset} \subseteq DOMAIN m
    /\ f.label = "REPEATED" => m[f.quantifier_offset] \in Nat
    /\ InOneof(f) => m[f.quantifier_offset] = 0 /\ m[f.offset] = NULL
    /\ f.type = "MESSAGE" /\ f.label # "REPEATED" => m[f.offset] = NULL
Bare(t, m) == Headed(m) /\ m.descriptor = t /\ \A f \in RowsOf(t) : BareSlot(m, f)
\* Nothing is counted in field f.
Uncounted(m, f) == f.label = "REPEATED" => m[f.quantifier_offset] = 0

\* The slots of a field of a bare message.
LEMMA BareSlots ==
    ASSUME NEW t, NEW f \in RowsOf(t), NEW m, Bare(t, m)
    PROVE  /\ BareSlot(m, f) /\ Headed(m) /\ t \in DOMAIN Descriptors /\ Laid(f)
           /\ {f.offset, f.quantifier_offset} \subseteq DOMAIN m
           /\ f.offset # f.quantifier_offset /\ f.offset # "descriptor"
<1>1. BareSlot(m, f) /\ Headed(m) /\ m.descriptor = t
  BY Zenon DEF Bare
<1>2. t \in DOMAIN Descriptors
  BY <1>1, Zenon DEF Headed
<1>3. Laid(f)
  BY <1>2, RowLaid, Zenon
<1> QED
  BY <1>1, <1>2, <1>3, Zenon DEF BareSlot, Laid

\* With nothing counted the message is whole.
LEMMA BareWhole ==
    ASSUME NEW d, NEW t, NEW m, Bare(t, m), \A f \in RowsOf(t) : Uncounted(m, f)
    PROVE  OfType(d, t, m)
<1>1. ASSUME NEW f \in RowsOf(t)
      PROVE  Holds(d, m, f)
  <2>1. /\ BareSlot(m, f) /\ Laid(f)
        /\ {f.offset, f.quantifier_offset} \subseteq DOMAIN m /\ Uncounted(m, f)
    BY BareSlots, Zenon
  <2>2. CASE f.label = "REPEATED"
    <3>1. m[f.quantifier_offset] = 0 /\ ~ InOneof(f)
      BY <2>1, <2>2 DEF Uncounted, Laid
    <3>2. m[f.quantifier_offset] \in Nat /\ ElementsGood(d, f, Elements(m[f.quantifier_offset], m[f.offset]))
      BY <3>1, NoElements, Zenon
    <3> QED
      BY <2>1, <2>2, <3>1, <3>2, RepeatedHolds, Zenon
  <2>3. CASE InOneof(f)
    <3>1. CaseGood(m, f) /\ m[f.offset] = NULL
      BY <2>1, <2>3, Zenon DEF BareSlot, CaseGood
    <3> QED
      BY <2>1, <2>3, <3>1, MemberHolds, Zenon DEF Laid
  <2>4. CASE f.label # "REPEATED" /\ ~ InOneof(f)
    BY <2>1, <2>4, SingularHolds, Zenon DEF BareSlot
  <2> QED
    BY <2>2, <2>3, <2>4
<1>2. Headed(m) /\ m.descriptor = t
  BY Zenon DEF Bare
<1> QED
  BY <1>1, <1>2, WholeRows, Zenon DEF OfType

\* An array, or its count, changes.
LEMMA BareChanged ==
    ASSUME NEW t, NEW f \in RowsOf(t), f.label = "REPEATED", NEW m, Bare(t, m),
           NEW x, Changes(m, x, f), x[f.quantifier_offset] \in Nat
    PROVE  /\ Bare(t, x)
           /\ \A g \in RowsOf(t) : g # f /\ Uncounted(m, g) => Uncounted(x, g)
<1>1. Headed(m) /\ m.descriptor = t /\ t \in DOMAIN Descriptors /\ DOMAIN x = DOMAIN m
  BY BareSlots, Zenon DEF Changes, Bare
<1>2. Headed(x) /\ x.descriptor = t
  <2>1. FieldsOf(m) = Descriptors[t].fields
    BY <1>1, Zenon DEF FieldsOf
  <2>2. PICK i \in DOMAIN FieldsOf(m) : f = FieldsOf(m)[i]
    BY <2>1, Zenon DEF RowsOf
  <2> QED
    BY <1>1, <2>2, ChangedHeader, Zenon
<1>3. ASSUME NEW g \in RowsOf(t), g # f
      PROVE  BareSlot(x, g) /\ (Uncounted(m, g) => Uncounted(x, g))
  <2>1. BareSlot(m, g) /\ Laid(g) /\ {g.offset, g.quantifier_offset} \subseteq DOMAIN m /\ Laid(f)
    BY BareSlots, Zenon
  <2>2. Apart(f, g) /\ Apart(g, f)
    BY <1>1, <1>3, RowsApart, Zenon
  <2>3. ~ InOneof(f) /\ f.quantifier_offset # "descriptor"
    BY <2>1 DEF Laid
  <2>4. g.offset \notin {f.offset, f.quantifier_offset}
    BY <2>2, <2>3, Zenon DEF Apart
  <2>5. g.quantifier_offset \notin {f.offset, f.quantifier_offset}
    BY <2>2, <2>3, Zenon DEF Apart
  <2>6. x[g.offset] = m[g.offset] /\ x[g.quantifier_offset] = m[g.quantifier_offset]
    BY <2>1, <2>4, <2>5, Zenon DEF Changes
  <2> QED
    BY <1>1, <2>1, <2>6, Zenon DEF BareSlot, Uncounted
<1>4. BareSlot(x, f)
  <2>1. {f.offset, f.quantifier_offset} \subseteq DOMAIN m /\ ~ InOneof(f)
    <3>1. {f.offset, f.quantifier_offset} \subseteq DOMAIN m /\ Laid(f)
      BY BareSlots, Zenon
    <3> QED
      BY <3>1 DEF Laid
  <2> QED
    BY <1>1, <2>1, Zenon DEF BareSlot
<1>5. \A g \in RowsOf(t) : BareSlot(x, g)
  BY <1>3, <1>4, Zenon
<1> QED
  BY <1>2, <1>3, <1>5, Zenon DEF Bare

\* The counts of the later arrays are cleared.
LEMMA BareCleared ==
    ASSUME NEW t, NEW m, Bare(t, m), NEW i \in Nat \ {0}
    PROVE  LET x == clear_remaining(m, Descriptors[t].fields, i)
           IN  /\ Bare(t, x)
               /\ \A g \in RowsOf(t) : Uncounted(m, g) => Uncounted(x, g)
               /\ \A k \in i..Len(Descriptors[t].fields) : Uncounted(x, Descriptors[t].fields[k])
<1> DEFINE later == Descriptors[t].fields
           counts == {later[k].quantifier_offset :
                         k \in {j \in i..Len(later) : later[j].label = "REPEATED"}}
           x == clear_remaining(m, Descriptors[t].fields, i)
<1>1. x = [slot \in DOMAIN m |-> IF slot \in counts THEN 0 ELSE m[slot]]
  BY DEF clear_remaining
<1>11. \A k \in i..Len(later) : later[k] \in RowsOf(t)
  <2>1. t \in DOMAIN Descriptors
    BY Zenon DEF Bare, Headed
  <2>2. Len(later) \in Nat /\ DOMAIN later = 1..Len(later)
    BY <2>1, FieldRows, Zenon
  <2>3. \A k \in i..Len(later) : k \in DOMAIN later
    BY <2>2
  <2> QED
    BY <2>3, Zenon DEF RowsOf
<1>2. \A s : s \in counts => \E f \in RowsOf(t) : f.label = "REPEATED" /\ f.quantifier_offset = s
  BY <1>11, Zenon
<1>3. \A k \in i..Len(later) : later[k].label = "REPEATED" => later[k].quantifier_offset \in counts
  BY Zenon
<1> HIDE DEF counts
<1>4. DOMAIN x = DOMAIN m /\ \A s \in DOMAIN m : x[s] = IF s \in counts THEN 0 ELSE m[s]
  BY <1>1
<1> HIDE DEF x
<1>5. Headed(m) /\ m.descriptor = t
  BY Zenon DEF Bare
<1>6. \A s \in counts : s \notin Header
  <2> SUFFICES ASSUME NEW s \in counts
               PROVE  s \notin Header
    OBVIOUS
  <2>1. PICK f \in RowsOf(t) : f.label = "REPEATED" /\ f.quantifier_offset = s
    BY <1>2, Zenon
  <2>2. Laid(f)
    BY BareSlots, Zenon
  <2> QED
    BY <2>1, <2>2 DEF Laid
<1>7. Headed(x) /\ x.descriptor = t
  <2>1. {"descriptor", "blk", "unknown_fields", "unknown"} = Header /\ Header \subseteq DOMAIN m
    BY <1>5 DEF Header, Headed
  <2>2. /\ x["descriptor"] = m["descriptor"] /\ x["blk"] = m["blk"]
        /\ x["unknown_fields"] = m["unknown_fields"] /\ x["unknown"] = m["unknown"]
    BY <1>4, <1>6, <2>1
  <2>3. /\ x.descriptor = m.descriptor /\ x.blk = m.blk
        /\ x.unknown_fields = m.unknown_fields /\ x.unknown = m.unknown
    BY <2>2
  <2> QED
    BY <1>4, <1>5, <2>1, <2>3, Zenon DEF Headed
<1>8. ASSUME NEW g \in RowsOf(t)
      PROVE  BareSlot(x, g) /\ (Uncounted(m, g) => Uncounted(x, g))
  <2>1. BareSlot(m, g) /\ Laid(g) /\ {g.offset, g.quantifier_offset} \subseteq DOMAIN m /\ t \in DOMAIN Descriptors
    BY BareSlots, Zenon
  <2>2. g.offset \notin counts
    <3> SUFFICES ASSUME g.offset \in counts
                 PROVE  FALSE
      OBVIOUS
    <3>1. PICK f \in RowsOf(t) : f.label = "REPEATED" /\ f.quantifier_offset = g.offset
      BY <1>2, Zenon
    <3>2. f # g => Apart(g, f)
      BY <2>1, RowsApart, Zenon
    <3> QED
      BY <2>1, <3>1, <3>2, Zenon DEF Apart, Laid
  <2>3. x[g.offset] = m[g.offset]
        /\ (x[g.quantifier_offset] = m[g.quantifier_offset] \/ x[g.quantifier_offset] = 0)
    BY <1>4, <2>1, <2>2
  <2>4. 0 \in Nat
    OBVIOUS
  <2> QED
    BY <1>4, <2>1, <2>3, <2>4, Zenon DEF BareSlot, Uncounted
<1>9. ASSUME NEW k \in i..Len(later)
      PROVE  Uncounted(x, later[k])
  <2>1. {later[k].offset, later[k].quantifier_offset} \subseteq DOMAIN m
    BY <1>11, BareSlots, Zenon
  <2> QED
    BY <1>3, <1>4, <2>1 DEF Uncounted
<1>10. Bare(t, x)
  BY <1>7, <1>8, Zenon DEF Bare
<1> QED
  BY <1>8, <1>9, <1>10, Zenon DEF x

\* The members that were scanned for a message of type t.
ScannedMembers(t) ==
    {sm \in [tag : Nat, wire_type : Nat, pref : Nat, data : Seq(Byte),
             field : {NULL} \cup {<<f>> : f \in RowsOf(t)}] :
        sm.field # NULL => sm.field[1].id = sm.tag}

\* Such a member is a scanned one.
LEMMA ScannedAll ==
    ASSUME NEW t, NEW sm \in ScannedMembers(t)
    PROVE  Scanned(t, sm)
<1>1. /\ sm.tag \in Nat /\ sm.wire_type \in Nat /\ sm.pref \in Nat /\ sm.data \in Seq(Byte)
      /\ sm.field \in {NULL} \cup {<<f>> : f \in RowsOf(t)}
      /\ sm.field # NULL => sm.field[1].id = sm.tag
  BY DEF ScannedMembers
<1>2. ASSUME sm.field # NULL
      PROVE  \E f \in RowsOf(t) : sm.field = <<f>> /\ f.id = sm.tag
  <2>1. PICK f \in RowsOf(t) : sm.field = <<f>>
    BY <1>1, <1>2, Zenon
  <2>2. sm.field[1] = f
    BY <2>1
  <2> QED
    BY <1>1, <1>2, <2>1, <2>2, Zenon
<1> QED
  BY <1>1, <1>2, Zenon DEF Scanned

\* What a scan from heap g has at any time.
ScanGood(t, g, s) ==
    /\ IsScan(s) /\ s.at \in Seq(Byte) /\ s.members \in Seq(ScannedMembers(t)) /\ s.slabs \in Seq(Nat)
    /\ s.last_field \in 0..Len(Descriptors[t].fields)
    /\ Honest(g, s.ok, s.h) /\ Bare(t, s.m)

\* An error ends the scan.
LEMMA ScanStops ==
    ASSUME NEW t, NEW g, NEW s, ScanGood(t, g, s)
    PROVE  ScanGood(t, g, [s EXCEPT !.ok = FALSE])
<1> DEFINE r == [s EXCEPT !.ok = FALSE]
<1>1. /\ DOMAIN r = DOMAIN s /\ r.ok = FALSE /\ r.at = s.at /\ r.members = s.members
      /\ r.slabs = s.slabs /\ r.last_field = s.last_field /\ r.h = s.h /\ r.m = s.m
  BY DEF ScanGood, IsScan, ScanState
<1>2. Honest(g, FALSE, s.h)
  BY DEF ScanGood, Honest
<1> HIDE DEF r
<1>3. ScanGood(t, g, r)
  BY <1>1, <1>2, Zenon DEF ScanGood, IsScan
<1> QED
  BY <1>3 DEF r

\* A member in its slab, with a new slab when that was the last place.
LEMMA MemberKeptBy ==
    ASSUME NEW t, NEW g \in Heaps, NEW s, ScanGood(t, g, s), s.ok = TRUE, NEW sm \in ScannedMembers(t)
    PROVE  ScanGood(t, g, store_member(s, sm))
<1> DEFINE stored == [s EXCEPT !.members = Append(@, sm), !.in_slab_index = @ + 1]
           new == do_alloc(s.h)
           r == store_member(s, sm)
<1>1. s.members \in Seq(ScannedMembers(t)) /\ s.slabs \in Seq(Nat) /\ DOMAIN s = ScanState
  BY DEF ScanGood, IsScan
<1>2. Append(s.members, sm) \in Seq(ScannedMembers(t))
  BY <1>1
<1>3. /\ DOMAIN stored = DOMAIN s /\ stored.ok = s.ok /\ stored.at = s.at
      /\ stored.members = Append(s.members, sm) /\ stored.slabs = s.slabs
      /\ stored.last_field = s.last_field /\ stored.h = s.h /\ stored.m = s.m
  BY <1>1 DEF ScanState
<1>4. r = IF s.in_slab_index < 2^(Len(s.slabs) + 4) THEN stored
          ELSE IF Len(s.slabs) = 22 THEN [s EXCEPT !.ok = FALSE]
          ELSE NextSlab(stored, new)
  BY Zenon DEF store_member
<1> HIDE DEF stored
<1>5. ScanGood(t, g, stored)
  BY <1>2, <1>3, Zenon DEF ScanGood, IsScan
<1>6. s.h \in Heaps /\ Honest(g, TRUE, s.h)
  BY DEF ScanGood, Honest
<1>7. Honest(s.h, new.ptr # 0, new.h) /\ new.ptr \in Nat
  BY <1>6, AllocGoes, Zenon
<1> HIDE DEF new, r
<1>8. Honest(g, new.ptr # 0, new.h)
  BY <1>6, <1>7, GoesOn, Zenon
<1>9. ScanGood(t, g, NextSlab(stored, new))
  <2> DEFINE k == NextSlab(stored, new)
  <2>1. CASE new.ptr = 0
    <3>1. k = [stored EXCEPT !.ok = FALSE, !.h = new.h]
      BY <2>1, Zenon DEF NextSlab
    <3>2. /\ DOMAIN k = DOMAIN stored /\ k.ok = FALSE /\ k.at = stored.at
          /\ k.members = stored.members /\ k.slabs = stored.slabs
          /\ k.last_field = stored.last_field /\ k.h = new.h /\ k.m = stored.m
      BY <1>1, <1>3, <3>1 DEF ScanState
    <3>3. Honest(g, FALSE, new.h)
      BY <1>8, <2>1
    <3> QED
      BY <1>5, <3>2, <3>3, Zenon DEF ScanGood, IsScan
  <2>2. CASE new.ptr # 0
    <3>1. k = [stored EXCEPT !.slabs = Append(@, new.ptr), !.in_slab_index = 1, !.h = new.h]
      BY <2>2, Zenon DEF NextSlab
    <3>2. /\ DOMAIN k = DOMAIN stored /\ k.ok = stored.ok /\ k.at = stored.at
          /\ k.members = stored.members /\ k.slabs = Append(stored.slabs, new.ptr)
          /\ k.last_field = stored.last_field /\ k.h = new.h /\ k.m = stored.m
      BY <1>1, <1>3, <3>1 DEF ScanState
    <3>3. Honest(g, TRUE, new.h)
      BY <1>8, <2>2
    <3>4. Append(stored.slabs, new.ptr) \in Seq(Nat)
      BY <1>1, <1>3, <1>7
    <3> QED
      BY <1>3, <1>5, <3>2, <3>3, <3>4, Zenon DEF ScanGood, IsScan
  <2> QED
    BY <2>1, <2>2
<1>10. ScanGood(t, g, [s EXCEPT !.ok = FALSE])
  BY ScanStops, Zenon
<1>11. ScanGood(t, g, r)
  BY <1>4, <1>5, <1>9, <1>10, Zenon
<1> QED
  BY <1>11 DEF r

\* The elements of packed data are counted.
LEMMA PackedCounted ==
    ASSUME NEW type, NEW b \in Seq(Byte)
    PROVE  count_packed_elements(type, b).count \in Nat
<1> DEFINE c == count_packed_elements(type, b)
<1>1. Len(b) \in Nat
  OBVIOUS
<1>2. max_b128_numbers(b) \in Nat
  <2> DEFINE K == {k \in 1..Len(b) : 7 \notin b[k]}
  <2>1. IsFiniteSet(1..Len(b))
    BY <1>1, FS_Interval
  <2>2. IsFiniteSet(K)
    BY <2>1, FS_Subset
  <2>3. Cardinality(K) \in Nat
    BY <2>2, FS_CardinalityType
  <2> QED
    BY <2>3 DEF max_b128_numbers
<1>3. Len(b) \div 4 \in Nat /\ Len(b) \div 8 \in Nat
  BY <1>1
<1>4. c.count \in {Len(b) \div 4, Len(b) \div 8, Len(b), 0, max_b128_numbers(b)}
  <2>1. CASE type \in Fixed32
    BY <2>1 DEF count_packed_elements
  <2>2. CASE type \in Fixed64
    BY <2>2 DEF count_packed_elements, Fixed32, Fixed64
  <2>3. CASE type = "BOOL"
    BY <2>3 DEF count_packed_elements, Fixed32, Fixed64
  <2>4. CASE type \in Pointer
    BY <2>4 DEF count_packed_elements, Fixed32, Fixed64, Pointer
  <2>5. CASE type \notin Fixed32 \cup Fixed64 \cup {"BOOL"} \cup Pointer
    BY <2>5 DEF count_packed_elements
  <2> QED
    BY <2>1, <2>2, <2>3, <2>4, <2>5
<1> HIDE DEF c
<1> QED
  BY <1>1, <1>2, <1>3, <1>4 DEF c

\* The elements of a packed member are counted.
LEMMA ElementsCounted ==
    ASSUME NEW t, NEW g, NEW s, ScanGood(t, g, s), NEW f \in RowsOf(t), f.label = "REPEATED",
           NEW c, c.count \in Nat
    PROVE  ScanGood(t, g, count_elements(s, f, c))
<1> DEFINE q == f.quantifier_offset
           m == [s.m EXCEPT ![q] = @ + c.count]
           r == count_elements(s, f, c)
<1>1. CASE ~ c.ok
  <2>1. r = [s EXCEPT !.ok = FALSE]
    BY <1>1, Zenon DEF count_elements
  <2>2. ScanGood(t, g, [s EXCEPT !.ok = FALSE])
    BY ScanStops, Zenon
  <2> HIDE DEF r
  <2>3. ScanGood(t, g, r)
    BY <2>1, <2>2, Zenon
  <2> QED
    BY <2>3 DEF r
<1>2. CASE c.ok
  <2>1. r = [s EXCEPT !.m[q] = @ + c.count]
    BY <1>2, Zenon DEF count_elements
  <2>2. DOMAIN s = ScanState /\ Bare(t, s.m)
    BY DEF ScanGood, IsScan
  <2>3. /\ DOMAIN r = DOMAIN s /\ r.ok = s.ok /\ r.at = s.at /\ r.members = s.members
        /\ r.slabs = s.slabs /\ r.last_field = s.last_field /\ r.h = s.h /\ r.m = m
    BY <2>1, <2>2 DEF ScanState
  <2>4. BareSlot(s.m, f) /\ {f.offset, q} \subseteq DOMAIN s.m /\ Laid(f)
    BY <2>2, BareSlots, Zenon
  <2>5. s.m[q] \in Nat /\ q # "descriptor"
    BY <2>4 DEF BareSlot, Laid
  <2>6. Changes(s.m, m, f) /\ m[q] \in Nat
    BY <2>4, <2>5 DEF Changes
  <2> HIDE DEF m, r
  <2>7. Bare(t, m)
    BY <2>2, <2>6, BareChanged, Zenon
  <2>8. ScanGood(t, g, r)
    BY <2>3, <2>7, Zenon DEF ScanGood, IsScan
  <2> QED
    BY <2>8 DEF r
<1> QED
  BY <1>1, <1>2

\* It ends the scan.
LEMMA ScanUndefined ==
    ASSUME NEW t, NEW g \in Heaps, NEW s, ScanGood(t, g, s)
    PROVE  ScanGood(t, g, [s EXCEPT !.ok = FALSE, !.h = Undefined(@)])
<1> DEFINE r == [s EXCEPT !.ok = FALSE, !.h = Undefined(@)]
<1>1. /\ DOMAIN r = DOMAIN s /\ r.ok = FALSE /\ r.at = s.at /\ r.members = s.members
      /\ r.slabs = s.slabs /\ r.last_field = s.last_field /\ r.h = Undefined(s.h) /\ r.m = s.m
  BY DEF ScanGood, IsScan, ScanState
<1>2. s.h \in Heaps /\ Honest(g, FALSE, s.h)
  BY DEF ScanGood, Honest
<1>3. Honest(g, FALSE, Undefined(s.h))
  BY <1>2, UndefinedKept, KeptGoes, Zenon
<1> HIDE DEF r
<1>4. ScanGood(t, g, r)
  BY <1>1, <1>3, Zenon DEF ScanGood, IsScan
<1> QED
  BY <1>4 DEF r

\* The elements of any member are counted.
LEMMA MemberCounted ==
    ASSUME NEW t, NEW g \in Heaps, NEW s, ScanGood(t, g, s), NEW sm \in ScannedMembers(t)
    PROVE  ScanGood(t, g, count_member(s, sm))
<1> DEFINE b == SubSeq(sm.data, sm.pref + 1, Len(sm.data))
           c == IF IsPackedMember(sm) THEN count_packed_elements(sm.field[1].type, b)
                ELSE [ok |-> TRUE, count |-> 1]
           r == count_member(s, sm)
<1>1. CASE ~ s.ok \/ sm.field = NULL
  <2>1. r = s
    BY <1>1, Zenon DEF count_member
  <2> QED
    BY <2>1
<1>2. CASE ~ (~ s.ok \/ sm.field = NULL) /\ sm.field[1].label # "REPEATED"
  <2>1. r = s
    BY <1>2, Zenon DEF count_member
  <2> QED
    BY <2>1
<1>4. CASE /\ ~ (~ s.ok \/ sm.field = NULL) /\ sm.field[1].label = "REPEATED"
           /\ IsPackedMember(sm) /\ BelowPrefix(sm)
  <2>1. r = [s EXCEPT !.ok = FALSE, !.h = Undefined(@)]
    BY <1>4, Zenon DEF count_member
  <2>2. ScanGood(t, g, [s EXCEPT !.ok = FALSE, !.h = Undefined(@)])
    BY ScanUndefined
  <2> HIDE DEF r
  <2>3. ScanGood(t, g, r)
    BY <2>1, <2>2, Zenon
  <2> QED
    BY <2>3 DEF r
<1>3. CASE /\ ~ (~ s.ok \/ sm.field = NULL) /\ sm.field[1].label = "REPEATED"
           /\ ~ (IsPackedMember(sm) /\ BelowPrefix(sm))
  <2>1. r = count_elements(s, sm.field[1], c)
    BY <1>3, Zenon DEF count_member
  <2>2. Scanned(t, sm)
    BY ScannedAll
  <2>3. sm.data \in Seq(Byte) /\ sm.pref \in Nat
    BY <2>2, Zenon DEF Scanned
  <2>4. b \in Seq(Byte)
    BY <2>3, RestOfData
  <2>5. PICK f \in RowsOf(t) : sm.field = <<f>> /\ f.id = sm.tag
    BY <1>3, <2>2, Zenon DEF Scanned
  <2>6. sm.field[1] = f /\ f.label = "REPEATED"
    BY <1>3, <2>5
  <2> HIDE DEF b
  <2>7. c.count \in Nat
    <3>1. CASE IsPackedMember(sm)
      <4>1. c = count_packed_elements(sm.field[1].type, b)
        BY <3>1, Zenon
      <4>2. count_packed_elements(sm.field[1].type, b).count \in Nat
        BY <2>4, PackedCounted, Zenon
      <4> HIDE DEF c
      <4> QED
        BY <4>1, <4>2
    <3>2. CASE ~ IsPackedMember(sm)
      BY <3>2
    <3> QED
      BY <3>1, <3>2
  <2> HIDE DEF c, r
  <2>8. ScanGood(t, g, count_elements(s, f, c))
    BY <2>6, <2>7, ElementsCounted, Zenon
  <2>9. ScanGood(t, g, r)
    BY <2>1, <2>6, <2>8, Zenon
  <2> QED
    BY <2>9 DEF r
<1> QED
  BY <1>1, <1>2, <1>3, <1>4

\* A member is taken from the bytes.
LEMMA MemberFound ==
    ASSUME NEW t, NEW g \in Heaps, NEW s, ScanGood(t, g, s), s.ok = TRUE,
           NEW sm \in ScannedMembers(t), NEW rest \in Seq(Byte)
    PROVE  ScanGood(t, g, TakeMember(s, sm, rest))
<1> DEFINE left == SubSeq(rest, Len(sm.data) + 1, Len(rest))
           k == [s EXCEPT !.at = left]
           r == TakeMember(s, sm, rest)
<1>1. sm.data \in Seq(Byte) /\ DOMAIN s = ScanState
  BY DEF ScannedMembers, ScanGood, IsScan
<1>2. left \in Seq(Byte)
  BY <1>1, RestOfData
<1>3. r = IF sm.data = <<>> THEN [s EXCEPT !.ok = FALSE] ELSE count_member(store_member(k, sm), sm)
  BY Zenon DEF TakeMember
<1> HIDE DEF left
<1>4. /\ DOMAIN k = DOMAIN s /\ k.ok = s.ok /\ k.at = left /\ k.members = s.members
      /\ k.slabs = s.slabs /\ k.last_field = s.last_field /\ k.h = s.h /\ k.m = s.m
  BY <1>1 DEF ScanState
<1> HIDE DEF k, r
<1>5. ScanGood(t, g, k) /\ k.ok = TRUE
  BY <1>2, <1>4, Zenon DEF ScanGood, IsScan
<1>6. ScanGood(t, g, store_member(k, sm))
  BY <1>5, MemberKeptBy, Zenon
<1>7. ScanGood(t, g, count_member(store_member(k, sm), sm))
  BY <1>6, MemberCounted, Zenon
<1>8. ScanGood(t, g, [s EXCEPT !.ok = FALSE])
  BY ScanStops, Zenon
<1>9. ScanGood(t, g, r)
  BY <1>3, <1>7, <1>8, Zenon
<1> QED
  BY <1>9 DEF r

\* The length of a prefixed member, wrapped or not.
LEMMA PrefixedLenNat ==
    ASSUME NEW n \in Nat, NEW val
    PROVE  PrefixedLen(n, val) \in Nat
<1>1. Val(val) \in Nat /\ Val(Bits(32) \ val) \in Nat
  BY ValNat
<1> QED
  BY <1>1 DEF PrefixedLen

\* The bytes of a member are within those left.
LEMMA MemberWithin ==
    ASSUME NEW type, NEW b \in Seq(Byte)
    PROVE  member_len(type, b).len \in 0..Len(b) /\ member_len(type, b).pref \in Nat
<1> DEFINE l == member_len(type, b)
<1>1. Len(b) \in Nat
  OBVIOUS
<1>2. CASE type = VARINT
  <2>1. l = [len |-> scan_varint(b), pref |-> 0]
    BY <1>2 DEF member_len, VARINT, FIXED_64BIT, LENGTH_PREFIXED, FIXED_32BIT
  <2>2. scan_varint(b) \in 0..Len(b)
    BY VarintScanned
  <2> QED
    BY <2>1, <2>2
<1>3. CASE type = FIXED_64BIT
  <2>1. l = [len |-> IF Len(b) < 8 THEN 0 ELSE 8, pref |-> 0]
    BY <1>3 DEF member_len, VARINT, FIXED_64BIT, LENGTH_PREFIXED, FIXED_32BIT
  <2> QED
    BY <1>1, <2>1
<1>4. CASE type = LENGTH_PREFIXED
  <2>1. l = scan_length_prefixed_data(b)
    BY <1>4 DEF member_len, VARINT, FIXED_64BIT, LENGTH_PREFIXED, FIXED_32BIT
  <2>2. CASE Ends(b, 5) = {}
    <3>1. l = [len |-> 0, pref |-> 0]
      BY <2>1, <2>2, Zenon DEF scan_length_prefixed_data
    <3> QED
      BY <1>1, <3>1
  <2>3. CASE Ends(b, 5) # {}
    <3> DEFINE n == Min(Ends(b, 5))
               len == PrefixedLen(n, Digits7(b, n, 32))
    <3>1. l = [len |-> IF len > Len(b) THEN 0 ELSE len, pref |-> n]
      BY <2>1, <2>3, Zenon DEF scan_length_prefixed_data
    <3>2. n \in 1..Len(b)
      BY <2>3, FirstOfEnds, Zenon
    <3>3. n \in Nat /\ len \in Nat
      <4>1. n \in Nat
        BY <1>1, <3>2
      <4> HIDE DEF n
      <4> QED
        BY <4>1, PrefixedLenNat
    <3> HIDE DEF n, len, l
    <3>4. l.len = (IF len > Len(b) THEN 0 ELSE len) /\ l.pref = n
      BY <3>1
    <3> QED
      BY <1>1, <3>3, <3>4 DEF l
  <2> QED
    BY <2>2, <2>3
<1>5. CASE type = FIXED_32BIT
  <2>1. l = [len |-> IF Len(b) < 4 THEN 0 ELSE 4, pref |-> 0]
    BY <1>5 DEF member_len, VARINT, FIXED_64BIT, LENGTH_PREFIXED, FIXED_32BIT
  <2> QED
    BY <1>1, <2>1
<1>6. CASE type \notin {VARINT, FIXED_64BIT, LENGTH_PREFIXED, FIXED_32BIT}
  <2>1. l = [len |-> 0, pref |-> 0]
    BY <1>6 DEF member_len
  <2> QED
    BY <1>1, <2>1
<1> QED
  BY <1>2, <1>3, <1>4, <1>5, <1>6

\* A tag is that of a field, or of none.
LEMMA FieldOfTag ==
    ASSUME NEW t \in DOMAIN Descriptors, NEW last \in 0..Len(Descriptors[t].fields), NEW tag \in Nat
    PROVE  LET fields == Descriptors[t].fields
               i == field_of_tag(Descriptors[t], last, tag)
           IN  /\ i \in 0..Len(fields)
               /\ i # 0 => fields[i] \in RowsOf(t) /\ fields[i].id = tag
<1> DEFINE fields == Descriptors[t].fields
           i == field_of_tag(Descriptors[t], last, tag)
           r == int_range_lookup(Descriptors[t].field_ranges, tag)
<1>1. Len(fields) \in Nat /\ DOMAIN fields = 1..Len(fields)
  BY FieldRows, Zenon
<1>2. CASE last # 0 /\ fields[last].id = tag
  <2>1. i = last
    BY <1>2, Zenon DEF field_of_tag
  <2>2. last \in DOMAIN fields
    BY <1>1, <1>2
  <2> QED
    BY <1>2, <2>1, <2>2 DEF RowsOf
<1>3. CASE ~ (last # 0 /\ fields[last].id = tag)
  <2>1. i = r + 1
    BY <1>3, Zenon DEF field_of_tag
  <2>2. tag \in Int
    OBVIOUS
  <2>3. r = -1 \/ \E j \in DOMAIN fields : fields[j].id = tag /\ r = j - 1
    BY <2>2, RowOfNumber, Zenon
  <2> HIDE DEF r, i
  <2>4. CASE r = -1
    <3>1. i = 0
      BY <2>1, <2>4
    <3> QED
      BY <1>1, <3>1 DEF i
  <2>5. ASSUME NEW j \in DOMAIN fields, fields[j].id = tag, r = j - 1
        PROVE  i = j
    <3>1. j \in Int
      BY <1>1
    <3> QED
      BY <2>1, <2>5, <3>1
  <2>6. CASE r # -1
    <3>1. PICK j \in DOMAIN fields : fields[j].id = tag /\ r = j - 1
      BY <2>3, <2>6
    <3>2. i = j
      BY <2>5, <3>1
    <3>3. fields[j] \in RowsOf(t)
      BY DEF RowsOf
    <3>4. j \in 0..Len(fields)
      BY <1>1
    <3> QED
      BY <3>1, <3>2, <3>3, <3>4 DEF i
  <2> QED
    BY <2>4, <2>6
<1> QED
  BY <1>2, <1>3

\* The rounds of the scan.
LEMMA ScanRounds ==
    ASSUME NEW desc, NEW s, Len(s.at) \in Nat
    PROVE  \E loop : /\ loop[0] = s
                     /\ \A k \in 1..Len(s.at) : loop[k] = IF loop[k - 1].at = <<>> \/ ~ loop[k - 1].ok THEN loop[k - 1] ELSE scan_member(desc, loop[k - 1])
                     /\ scan(desc, s) = loop[Len(s.at)]
<1> DEFINE N == Len(s.at)
           G(k, f) == IF k = 0 THEN s ELSE IF f[k - 1].at = <<>> \/ ~ f[k - 1].ok THEN f[k - 1] ELSE scan_member(desc, f[k - 1])
           R(j, f) == f = [k \in 0..j |-> G(k, f)]
           loop == CHOOSE f : R(N, f)
           S == {j \in Nat : \E f : R(j, f)}
<1>1. N \in Nat
  OBVIOUS
<1>2. scan(desc, s) = loop[N]
  BY DEF scan
<1>3. \A k, f, g : (k # 0 => f[k - 1] = g[k - 1]) => G(k, f) = G(k, g)
  BY Zenon
<1>4. (\A f : G(0, f) = s)
      /\ \A k, f : k # 0 => G(k, f) = IF f[k - 1].at = <<>> \/ ~ f[k - 1].ok THEN f[k - 1] ELSE scan_member(desc, f[k - 1])
  BY Zenon
<1> HIDE DEF G, N
<1>5. 0 \in S
  <2>1. \A k \in 0..0 : k = 0
    OBVIOUS
  <2>2. [k \in 0..0 |-> G(0, <<>>)] = [k \in 0..0 |-> G(k, [i \in 0..0 |-> G(0, <<>>)])]
    BY <1>3, <2>1, Zenon
  <2> QED
    BY <2>2
<1>6. ASSUME NEW j \in S
      PROVE  j + 1 \in S
  <2>1. PICK f : R(j, f)
    OBVIOUS
  <2> DEFINE g == [k \in 0..(j + 1) |-> G(k, f)]
  <2>2. \A k \in 0..(j + 1) : k # 0 => k - 1 \in 0..j /\ k - 1 \in 0..(j + 1)
    OBVIOUS
  <2>3. \A k \in 0..(j + 1) : k # 0 => f[k - 1] = g[k - 1]
    BY <2>1, <2>2, Zenon
  <2>4. \A k \in 0..(j + 1) : G(k, f) = G(k, g)
    BY <1>3, <2>3, Zenon
  <2>5. R(j + 1, g)
    BY <2>4, Zenon
  <2>6. j \in Nat /\ j + 1 \in Nat
    OBVIOUS
  <2> HIDE DEF g, R
  <2> QED
    BY <2>5, <2>6, Zenon
<1> HIDE DEF S
<1>7. N \in S
  BY <1>1, <1>5, <1>6, Induction DEF S
<1>8. R(N, loop)
  BY <1>7, Zenon DEF S
<1> HIDE DEF loop
<1>9. \A k \in 0..N : loop[k] = G(k, loop)
  BY <1>8, Zenon
<1>10. 0 \in 0..N /\ \A k \in 1..N : k \in 0..N /\ k # 0
  BY <1>1
<1>11. loop[0] = s /\ \A k \in 1..N : loop[k] = IF loop[k - 1].at = <<>> \/ ~ loop[k - 1].ok THEN loop[k - 1] ELSE scan_member(desc, loop[k - 1])
  BY <1>4, <1>9, <1>10, Zenon
<1> QED
  BY <1>2, <1>11, Zenon DEF N

\* parse_tag_and_wiretype stays within the bytes.
LEMMA TagRead ==
    ASSUME NEW b \in Seq(Byte)
    PROVE  LET r == parse_tag_and_wiretype(b)
           IN  r.used = 0 \/ (r.used \in 1..Len(b) /\ r.tag \in Nat /\ r.wire_type \in Nat)
<1> DEFINE r == parse_tag_and_wiretype(b)
<1>1. CASE Ends(b, 5) = {}
  BY <1>1 DEF parse_tag_and_wiretype
<1>2. CASE Ends(b, 5) # {}
  <2> DEFINE n == Min(Ends(b, 5))
             tag == Val(Shr(Digits7(b, n, 35), 3))
             type == Val(Low(b[1], 3))
  <2>1. r = [used |-> n, tag |-> tag, wire_type |-> type]
    BY <1>2, Zenon DEF parse_tag_and_wiretype
  <2>2. n \in 1..Len(b)
    BY <1>2, FirstOfEnds, Zenon
  <2>3. tag \in Nat /\ type \in Nat
    BY ValNat, Zenon
  <2> HIDE DEF n, tag, type
  <2> QED
    BY <2>1, <2>2, <2>3
<1> QED
  BY <1>1, <1>2

\* The field of a member is noted, or that it is unknown.
LEMMA FieldNoted ==
    ASSUME NEW t, NEW g, NEW s, ScanGood(t, g, s), NEW i \in 0..Len(Descriptors[t].fields), NEW field
    PROVE  ScanGood(t, g, FoundField(s, i, field)) /\ FoundField(s, i, field).ok = s.ok
<1> DEFINE r == FoundField(s, i, field)
<1>1. DOMAIN s = ScanState /\ s.last_field \in 0..Len(Descriptors[t].fields)
  BY DEF ScanGood, IsScan
<1>2. /\ DOMAIN r = DOMAIN s /\ r.ok = s.ok /\ r.at = s.at /\ r.members = s.members
      /\ r.slabs = s.slabs /\ r.last_field = (IF i = 0 THEN s.last_field ELSE i)
      /\ r.h = s.h /\ r.m = s.m
  BY <1>1 DEF FoundField, ScanState
<1> HIDE DEF r
<1>3. r.last_field \in 0..Len(Descriptors[t].fields)
  BY <1>1, <1>2
<1>4. ScanGood(t, g, r)
  BY <1>2, <1>3, Zenon DEF ScanGood, IsScan
<1> QED
  BY <1>2, <1>4 DEF r

\* One round of the scan.
LEMMA MemberScanned ==
    ASSUME NEW t \in DOMAIN Descriptors, NEW g \in Heaps, NEW s, ScanGood(t, g, s), s.ok = TRUE
    PROVE  ScanGood(t, g, scan_member(Descriptors[t], s))
<1> DEFINE desc == Descriptors[t]
           tag == parse_tag_and_wiretype(s.at)
           r == scan_member(desc, s)
<1>1. s.at \in Seq(Byte) /\ s.last_field \in 0..Len(desc.fields)
  BY Zenon DEF ScanGood
<1>2. tag.used = 0 \/ (tag.used \in 1..Len(s.at) /\ tag.tag \in Nat /\ tag.wire_type \in Nat)
  BY <1>1, TagRead, Zenon
<1>3. CASE tag.used = 0
  <2>1. r = [s EXCEPT !.ok = FALSE]
    BY <1>3, Zenon DEF scan_member, scan_tag
  <2> HIDE DEF r
  <2>2. ScanGood(t, g, [s EXCEPT !.ok = FALSE])
    BY ScanStops, Zenon
  <2>3. ScanGood(t, g, r)
    BY <2>1, <2>2, Zenon
  <2> QED
    BY <2>3 DEF r
<1>4. CASE tag.used # 0
  <2> DEFINE rest == SubSeq(s.at, tag.used + 1, Len(s.at))
             l == member_len(tag.wire_type, rest)
             i == field_of_tag(desc, s.last_field, tag.tag)
             field == IF i = 0 THEN NULL ELSE <<desc.fields[i]>>
             sm == ScannedMember(tag, l, rest, field)
             k == FoundField(s, i, field)
  <2>1. tag.used \in 1..Len(s.at) /\ tag.tag \in Nat /\ tag.wire_type \in Nat
    BY <1>2, <1>4
  <2>2. r = TakeMember(k, sm, rest)
    BY <1>4, Zenon DEF scan_member, scan_tag, scan_field, scan_data
  <2>3. tag.used \in Nat
    BY <2>1
  <2>4. rest \in Seq(Byte)
    BY <1>1, <2>3, RestOfData, Zenon
  <2>5. i \in 0..Len(desc.fields) /\ (i # 0 => desc.fields[i] \in RowsOf(t) /\ desc.fields[i].id = tag.tag)
    BY <1>1, <2>1, FieldOfTag, Zenon
  <2>6. ScanGood(t, g, k) /\ k.ok = TRUE
    <3> HIDE DEF i, field, desc
    <3>1. i \in 0..Len(Descriptors[t].fields)
      BY <2>5 DEF desc
    <3> QED
      BY <3>1, FieldNoted, Zenon
  <2> HIDE DEF rest, i, tag, k, r
  <2>7. l.len \in 0..Len(rest) /\ l.pref \in Nat
    BY <2>4, MemberWithin, Zenon
  <2> HIDE DEF l
  <2>8. SubSeq(rest, 1, l.len) \in Seq(Byte)
    BY <2>4, <2>7
  <2>9. sm \in ScannedMembers(t)
    <3>1. sm = [tag |-> tag.tag, wire_type |-> tag.wire_type, pref |-> l.pref, field |-> field,
                data |-> SubSeq(rest, 1, l.len)]
      BY DEF ScannedMember
    <3>2. field = NULL \/ (field \in {<<f>> : f \in RowsOf(t)} /\ field[1].id = tag.tag)
      <4>1. CASE i = 0
        BY <4>1
      <4>2. CASE i # 0
        <5>1. field = <<desc.fields[i]>> /\ desc.fields[i] \in RowsOf(t) /\ desc.fields[i].id = tag.tag
          BY <2>5, <4>2, Zenon
        <5> HIDE DEF field
        <5>2. field[1] = desc.fields[i]
          BY <5>1
        <5> QED
          BY <5>1, <5>2, Zenon
      <4> QED
        BY <4>1, <4>2
    <3> HIDE DEF field, sm
    <3>3. sm \in [tag : Nat, wire_type : Nat, pref : Nat, data : Seq(Byte),
                  field : {NULL} \cup {<<f>> : f \in RowsOf(t)}]
      BY <2>1, <2>7, <2>8, <3>1, <3>2
    <3>4. sm.field = field /\ sm.tag = tag.tag
      BY <3>1
    <3> QED
      BY <3>2, <3>3, <3>4, Zenon DEF ScannedMembers
  <2> HIDE DEF sm
  <2>10. ScanGood(t, g, TakeMember(k, sm, rest))
    BY <2>4, <2>6, <2>9, MemberFound, Zenon
  <2>11. ScanGood(t, g, r)
    BY <2>2, <2>10, Zenon
  <2> QED
    BY <2>11 DEF r
<1> QED
  BY <1>3, <1>4

\* The scan.
LEMMA AllScanned ==
    ASSUME NEW t \in DOMAIN Descriptors, NEW g \in Heaps, NEW s, ScanGood(t, g, s)
    PROVE  ScanGood(t, g, scan(Descriptors[t], s))
<1> DEFINE N == Len(s.at)
           desc == Descriptors[t]
<1>1. N \in Nat
  BY DEF ScanGood
<1>2. PICK loop : /\ loop[0] = s
                  /\ \A k \in 1..N : loop[k] = IF loop[k - 1].at = <<>> \/ ~ loop[k - 1].ok THEN loop[k - 1]
                                               ELSE scan_member(desc, loop[k - 1])
                  /\ scan(desc, s) = loop[N]
  BY <1>1, ScanRounds
<1> DEFINE S == {k \in 0..N : ScanGood(t, g, loop[k])}
<1>3. ASSUME NEW k \in 1..N, ScanGood(t, g, loop[k - 1])
      PROVE  ScanGood(t, g, loop[k])
  <2> DEFINE r == loop[k - 1]
  <2>1. CASE r.at = <<>> \/ ~ r.ok
    BY <1>2, <1>3, <2>1, Zenon
  <2>2. CASE ~ (r.at = <<>> \/ ~ r.ok)
    <3>1. r.ok = TRUE
      BY <1>3, <2>2 DEF ScanGood, Honest
    <3>2. loop[k] = scan_member(desc, r)
      BY <1>2, <2>2, Zenon
    <3> HIDE DEF r
    <3>3. ScanGood(t, g, r)
      BY <1>3 DEF r
    <3> QED
      BY <3>1, <3>2, <3>3, MemberScanned, Zenon
  <2> QED
    BY <2>1, <2>2
<1> HIDE DEF N
<1>4. N \in Nat /\ 0 \in 0..N /\ \A k \in 1..N : k \in 0..N
  BY <1>1
<1>5. 0 \in S /\ \A k \in 1..N : k - 1 \in S => k \in S
  BY <1>2, <1>3, <1>4, Zenon
<1> HIDE DEF S
<1>6. \A k \in 0..N : k \in S
  BY <1>4, <1>5, Along
<1>7. N \in S
  BY <1>4, <1>6
<1> QED
  BY <1>2, <1>7, Zenon DEF S

-----------------------------------------------------------------------------
(* The arrays. *)

\* The rounds of their allocation.
LEMMA AllocateRounds ==
    ASSUME NEW desc, NEW s, Len(desc.fields) \in Nat
    PROVE  \E loop : /\ loop[0] = s
                     /\ \A k \in 1..Len(desc.fields) : loop[k] = allocate_field(loop[k - 1], desc.fields, k)
                     /\ allocate_repeated(desc, s) = loop[Len(desc.fields)]
<1> DEFINE N == Len(desc.fields)
           G(k, f) == IF k = 0 THEN s ELSE allocate_field(f[k - 1], desc.fields, k)
           R(j, f) == f = [k \in 0..j |-> G(k, f)]
           loop == CHOOSE f : R(N, f)
           S == {j \in Nat : \E f : R(j, f)}
<1>1. N \in Nat
  OBVIOUS
<1>2. allocate_repeated(desc, s) = loop[N]
  BY DEF allocate_repeated
<1>3. \A k, f, g : (k # 0 => f[k - 1] = g[k - 1]) => G(k, f) = G(k, g)
  BY Zenon
<1>4. (\A f : G(0, f) = s)
      /\ \A k, f : k # 0 => G(k, f) = allocate_field(f[k - 1], desc.fields, k)
  BY Zenon
<1> HIDE DEF G, N
<1>5. 0 \in S
  <2>1. \A k \in 0..0 : k = 0
    OBVIOUS
  <2>2. [k \in 0..0 |-> G(0, <<>>)] = [k \in 0..0 |-> G(k, [i \in 0..0 |-> G(0, <<>>)])]
    BY <1>3, <2>1, Zenon
  <2> QED
    BY <2>2
<1>6. ASSUME NEW j \in S
      PROVE  j + 1 \in S
  <2>1. PICK f : R(j, f)
    OBVIOUS
  <2> DEFINE g == [k \in 0..(j + 1) |-> G(k, f)]
  <2>2. \A k \in 0..(j + 1) : k # 0 => k - 1 \in 0..j /\ k - 1 \in 0..(j + 1)
    OBVIOUS
  <2>3. \A k \in 0..(j + 1) : k # 0 => f[k - 1] = g[k - 1]
    BY <2>1, <2>2, Zenon
  <2>4. \A k \in 0..(j + 1) : G(k, f) = G(k, g)
    BY <1>3, <2>3, Zenon
  <2>5. R(j + 1, g)
    BY <2>4, Zenon
  <2>6. j \in Nat /\ j + 1 \in Nat
    OBVIOUS
  <2> HIDE DEF g, R
  <2> QED
    BY <2>5, <2>6, Zenon
<1> HIDE DEF S
<1>7. N \in S
  BY <1>1, <1>5, <1>6, Induction DEF S
<1>8. R(N, loop)
  BY <1>7, Zenon DEF S
<1> HIDE DEF loop
<1>9. \A k \in 0..N : loop[k] = G(k, loop)
  BY <1>8, Zenon
<1>10. 0 \in 0..N /\ \A k \in 1..N : k \in 0..N /\ k # 0
  BY <1>1
<1>11. loop[0] = s /\ \A k \in 1..N : loop[k] = allocate_field(loop[k - 1], desc.fields, k)
  BY <1>4, <1>9, <1>10, Zenon
<1> QED
  BY <1>2, <1>11, Zenon DEF N

\* After i fields: no count is left of those, nor of any when it failed.
Allotted(t, s, i, a) ==
    /\ IsScan(a) /\ a.members = s.members /\ a.slabs = s.slabs
    /\ Honest(s.h, a.ok, a.h) /\ Bare(t, a.m)
    /\ \A j \in 1..Len(Descriptors[t].fields) :
          j <= i \/ ~ a.ok => Uncounted(a.m, Descriptors[t].fields[j])

\* What is allocated, or not, for field i.
LEMMA AllocationFails ==
    ASSUME NEW t \in DOMAIN Descriptors, NEW s, NEW i \in 1..Len(Descriptors[t].fields),
           NEW a, Allotted(t, s, i - 1, a), NEW h, Honest(s.h, FALSE, h)
    PROVE  Allotted(t, s, i, [a EXCEPT !.ok = FALSE, !.h = h,
                                       !.m = clear_remaining(@, Descriptors[t].fields, i)])
<1> DEFINE fields == Descriptors[t].fields
           m == clear_remaining(a.m, fields, i)
           r == [a EXCEPT !.ok = FALSE, !.h = h, !.m = m]
<1>1. Len(fields) \in Nat /\ DOMAIN fields = 1..Len(fields)
  BY FieldRows, Zenon
<1>2. DOMAIN a = ScanState /\ Bare(t, a.m)
  BY DEF Allotted, IsScan
<1>3. i \in Nat \ {0}
  BY <1>1
<1>4. /\ Bare(t, m)
      /\ \A g \in RowsOf(t) : Uncounted(a.m, g) => Uncounted(m, g)
      /\ \A k \in i..Len(fields) : Uncounted(m, fields[k])
  BY <1>2, <1>3, BareCleared, Zenon
<1> HIDE DEF m
<1>5. /\ DOMAIN r = DOMAIN a /\ r.ok = FALSE /\ r.h = h /\ r.m = m
      /\ r.members = a.members /\ r.slabs = a.slabs
  BY <1>2 DEF ScanState
<1> HIDE DEF r
<1>6. \A j \in 1..Len(fields) : Uncounted(m, fields[j])
  <2> SUFFICES ASSUME NEW j \in 1..Len(fields)
               PROVE  Uncounted(m, fields[j])
    OBVIOUS
  <2>1. fields[j] \in RowsOf(t)
    BY <1>1 DEF RowsOf
  <2>2. j <= i - 1 \/ j \in i..Len(fields)
    BY <1>1
  <2>3. j <= i - 1 => Uncounted(a.m, fields[j])
    BY Zenon DEF Allotted
  <2> QED
    BY <1>4, <2>1, <2>2, <2>3, Zenon
<1>7. Allotted(t, s, i, r)
  BY <1>4, <1>5, <1>6, Zenon DEF Allotted, IsScan
<1> QED
  BY <1>7 DEF r, m

\* An array is allocated, or not.
LEMMA ArrayAllotted ==
    ASSUME NEW t \in DOMAIN Descriptors, NEW s, s.h \in Heaps, NEW i \in 1..Len(Descriptors[t].fields),
           Descriptors[t].fields[i].label = "REPEATED",
           NEW a, Allotted(t, s, i - 1, a), a.ok = TRUE
    PROVE  Allotted(t, s, i, allocate_array(a, Descriptors[t].fields, i, do_alloc(a.h)))
<1> DEFINE fields == Descriptors[t].fields
           f == fields[i]
           o == f.offset
           q == f.quantifier_offset
           new == do_alloc(a.h)
           r == allocate_array(a, fields, i, new)
<1>1. Len(fields) \in Nat /\ DOMAIN fields = 1..Len(fields)
  BY FieldRows, Zenon
<1>2. DOMAIN a = ScanState /\ Bare(t, a.m) /\ f \in RowsOf(t)
  BY <1>1 DEF Allotted, IsScan, RowsOf
<1>3. a.h \in Heaps /\ Honest(s.h, TRUE, a.h)
  BY DEF Allotted, Honest
<1>4. Honest(a.h, new.ptr # 0, new.h)
  BY <1>3, AllocGoes, Zenon
<1> HIDE DEF new
<1>5. Honest(s.h, new.ptr # 0, new.h)
  BY <1>3, <1>4, GoesOn, Zenon
<1>6. CASE new.ptr = 0
  <2>1. r = [a EXCEPT !.ok = FALSE, !.h = new.h, !.m = clear_remaining(@, fields, i)]
    BY <1>6, Zenon DEF allocate_array
  <2>2. Honest(s.h, FALSE, new.h)
    BY <1>5, <1>6
  <2> HIDE DEF r
  <2>3. Allotted(t, s, i, [a EXCEPT !.ok = FALSE, !.h = new.h,
                                    !.m = clear_remaining(@, Descriptors[t].fields, i)])
    BY <2>2, AllocationFails, Zenon
  <2>4. Allotted(t, s, i, r)
    BY <2>1, <2>3, Zenon
  <2> QED
    BY <2>4 DEF r, new
<1>7. CASE new.ptr # 0
  <2> DEFINE array == <<Array(new.ptr, a.m[q], <<>>)>>
             m == [a.m EXCEPT ![q] = 0, ![o] = array]
  <2>1. r = [a EXCEPT !.h = new.h, !.m[q] = 0, !.m[o] = array]
    BY <1>7, Zenon DEF allocate_array
  <2> HIDE DEF array
  <2>2. /\ DOMAIN r = DOMAIN a /\ r.ok = a.ok /\ r.h = new.h /\ r.m = m
        /\ r.members = a.members /\ r.slabs = a.slabs
    BY <1>2, <2>1 DEF ScanState
  <2>3. {o, q} \subseteq DOMAIN a.m /\ Laid(f) /\ o # q /\ o # "descriptor"
    BY <1>2, BareSlots, Zenon
  <2>4. q # "descriptor"
    BY <2>3 DEF Laid
  <2>5. Changes(a.m, m, f) /\ m[q] = 0
    BY <2>3, <2>4, QuantifierFirst, Zenon
  <2> HIDE DEF m, r
  <2>6. m[q] \in Nat
    BY <2>5
  <2>7. Bare(t, m) /\ \A g \in RowsOf(t) : g # f /\ Uncounted(a.m, g) => Uncounted(m, g)
    BY <1>2, <2>5, <2>6, BareChanged, Zenon
  <2>8. ASSUME NEW j \in 1..Len(fields), j <= i
        PROVE  Uncounted(m, fields[j])
    <3>1. fields[j] \in RowsOf(t)
      BY <1>1 DEF RowsOf
    <3>2. CASE fields[j] = f
      BY <2>5, <3>2 DEF Uncounted
    <3>3. CASE fields[j] # f
      <4>1. j <= i - 1
        BY <1>1, <2>8, <3>3
      <4>2. Uncounted(a.m, fields[j])
        BY <4>1, Zenon DEF Allotted
      <4> QED
        BY <2>7, <3>1, <3>3, <4>2, Zenon
    <3> QED
      BY <3>2, <3>3
  <2>9. Honest(s.h, a.ok, new.h)
    BY <1>5, <1>7
  <2>10. Allotted(t, s, i, r)
    BY <2>2, <2>7, <2>8, <2>9, Zenon DEF Allotted, IsScan
  <2> QED
    BY <2>10 DEF r, new
<1> QED
  BY <1>6, <1>7

\* One field.
LEMMA FieldAllotted ==
    ASSUME NEW t \in DOMAIN Descriptors, NEW s, s.h \in Heaps, NEW i \in 1..Len(Descriptors[t].fields),
           NEW a, Allotted(t, s, i - 1, a)
    PROVE  Allotted(t, s, i, allocate_field(a, Descriptors[t].fields, i))
<1> DEFINE fields == Descriptors[t].fields
           f == fields[i]
           r == allocate_field(a, fields, i)
<1>1. Len(fields) \in Nat /\ DOMAIN fields = 1..Len(fields)
  BY FieldRows, Zenon
<1>2. ASSUME ~ a.ok \/ Uncounted(a.m, f)
      PROVE  Allotted(t, s, i, a)
  <2>1. \A j \in 1..Len(fields) : j <= i => j <= i - 1 \/ fields[j] = f
    BY <1>1
  <2>2. \A j \in 1..Len(fields) : j <= i \/ ~ a.ok => Uncounted(a.m, fields[j])
    BY <1>2, <2>1, Zenon DEF Allotted
  <2> QED
    BY <2>2, Zenon DEF Allotted
<1>3. CASE ~ a.ok
  <2>1. r = a
    BY <1>3, Zenon DEF allocate_field
  <2> QED
    BY <1>2, <1>3, <2>1, Zenon
<1>4. CASE a.ok /\ f.label = "REPEATED"
  <2>1. r = IF a.m[f.quantifier_offset] = 0 THEN a ELSE allocate_array(a, fields, i, do_alloc(a.h))
    BY <1>4, Zenon DEF allocate_field
  <2>2. a.m[f.quantifier_offset] = 0 => Uncounted(a.m, f)
    BY Zenon DEF Uncounted
  <2>3. a.ok = TRUE
    BY <1>4 DEF Allotted, Honest
  <2>4. Allotted(t, s, i, allocate_array(a, fields, i, do_alloc(a.h)))
    BY <1>4, <2>3, ArrayAllotted, Zenon
  <2> HIDE DEF r, fields
  <2>5. Allotted(t, s, i, r)
    BY <1>2, <2>1, <2>2, <2>4, Zenon
  <2> QED
    BY <2>5 DEF r, fields
<1>5. CASE a.ok /\ f.label # "REPEATED"
  <2> DEFINE k == [a EXCEPT !.ok = FALSE, !.m = clear_remaining(@, fields, i)]
  <2>1. r = a \/ r = k
    BY <1>5, Zenon DEF allocate_field
  <2>2. Uncounted(a.m, f)
    BY <1>5 DEF Uncounted
  <2>3. Honest(s.h, FALSE, a.h) /\ DOMAIN a = ScanState
    BY DEF Allotted, Honest, IsScan
  <2>4. Allotted(t, s, i, [a EXCEPT !.ok = FALSE, !.h = a.h,
                                    !.m = clear_remaining(@, Descriptors[t].fields, i)])
    BY <2>3, AllocationFails, Zenon
  <2>5. k = [a EXCEPT !.ok = FALSE, !.h = a.h, !.m = clear_remaining(@, Descriptors[t].fields, i)]
    BY <2>3 DEF ScanState
  <2> HIDE DEF r, k
  <2>6. Allotted(t, s, i, r)
    BY <1>2, <2>1, <2>2, <2>4, <2>5, Zenon
  <2> QED
    BY <2>6 DEF r
<1> QED
  BY <1>3, <1>4, <1>5

\* All fields.
LEMMA AllAllotted ==
    ASSUME NEW t \in DOMAIN Descriptors, NEW s, s.h \in Heaps, s.ok \in BOOLEAN, IsScan(s), Bare(t, s.m),
           s.ok = TRUE
    PROVE  LET r == allocate_repeated(Descriptors[t], s)
           IN  Allotted(t, s, Len(Descriptors[t].fields), r)
<1> DEFINE fields == Descriptors[t].fields
           N == Len(fields)
<1>1. N \in Nat /\ DOMAIN fields = 1..N
  BY FieldRows, Zenon
<1>2. PICK loop : /\ loop[0] = s
                  /\ \A k \in 1..N : loop[k] = allocate_field(loop[k - 1], fields, k)
                  /\ allocate_repeated(Descriptors[t], s) = loop[N]
  BY <1>1, AllocateRounds
<1> DEFINE S == {k \in 0..N : Allotted(t, s, k, loop[k])}
<1>3. Allotted(t, s, 0, s)
  <2>1. Honest(s.h, s.ok, s.h)
    BY HonestSame, Zenon
  <2>2. \A j \in 1..N : ~ (j <= 0)
    BY <1>1
  <2> QED
    BY <2>1, <2>2, Zenon DEF Allotted
<1>4. \A k \in 1..N : Allotted(t, s, k - 1, loop[k - 1]) => Allotted(t, s, k, loop[k])
  BY <1>2, FieldAllotted, Zenon
<1> HIDE DEF N
<1>5. N \in Nat /\ 0 \in 0..N /\ \A k \in 1..N : k \in 0..N
  BY <1>1
<1>6. 0 \in S /\ \A k \in 1..N : k - 1 \in S => k \in S
  BY <1>2, <1>3, <1>4, <1>5, Zenon
<1> HIDE DEF S
<1>7. \A k \in 0..N : k \in S
  BY <1>5, <1>6, Along
<1>8. N \in S
  BY <1>5, <1>7
<1> QED
  BY <1>2, <1>8, Zenon DEF S, N

-----------------------------------------------------------------------------
(* What an initialiser leaves. *)

\* The same of one field.
FreshSlot(m, f) ==
    /\ {f.offset, f.quantifier_offset} \subseteq DOMAIN m
    /\ f.label = "REPEATED" \/ InOneof(f) => m[f.quantifier_offset] = 0
    /\ f.type = "MESSAGE" \/ InOneof(f) => m[f.offset] = NULL
FreshHead(t, m) ==
    /\ m.descriptor = t /\ m.unknown_fields = NULL /\ m.unknown = <<>> /\ Header \subseteq DOMAIN m

\* Freshness, by the rows of the table.
LEMMA FreshRows ==
    ASSUME NEW t, NEW m
    PROVE  Fresh(t, m) <=> FreshHead(t, m) /\ \A f \in RowsOf(t) : FreshSlot(m, f)
BY Zenon DEF Fresh, FreshHead, FreshSlot, RowsOf

\* It is a bare message, with no count.
LEMMA FreshStarts ==
    ASSUME NEW t \in DOMAIN Descriptors, NEW m, Fresh(t, m), NEW blk \in Nat
    PROVE  LET x == [m EXCEPT !.blk = blk]
           IN  Bare(t, x) /\ \A f \in RowsOf(t) : Uncounted(x, f)
<1> DEFINE x == [m EXCEPT !.blk = blk]
<1>1. FreshHead(t, m) /\ \A f \in RowsOf(t) : FreshSlot(m, f)
  BY FreshRows, Zenon
<1>2. /\ m.descriptor = t /\ m.unknown_fields = <<>> /\ m.unknown = <<>>
      /\ Header \subseteq DOMAIN m /\ {"descriptor", "blk", "unknown_fields", "unknown"} \subseteq DOMAIN m
  BY <1>1 DEF FreshHead, NULL, Header
<1>3. /\ x.descriptor = t /\ x.blk = blk /\ x.unknown_fields = <<>> /\ x.unknown = <<>>
      /\ DOMAIN x = DOMAIN m /\ \A s \in DOMAIN m : s # "blk" => x[s] = m[s]
  BY <1>2
<1> HIDE DEF x
<1>4. <<>> \in Seq(Nat) /\ <<>> \in Seq(UnknownRecords)
  OBVIOUS
<1>5. Headed(x)
  BY <1>2, <1>3, <1>4 DEF Headed
<1>6. ASSUME NEW f \in RowsOf(t)
      PROVE  BareSlot(x, f) /\ Uncounted(x, f)
  <2>1. FreshSlot(m, f) /\ Laid(f)
    BY <1>1, RowLaid, Zenon
  <2>2. f.offset # "blk" /\ f.quantifier_offset # "blk"
    BY <2>1 DEF Laid, Header
  <2>3. /\ {f.offset, f.quantifier_offset} \subseteq DOMAIN x
        /\ x[f.offset] = m[f.offset] /\ x[f.quantifier_offset] = m[f.quantifier_offset]
    BY <1>3, <2>1, <2>2 DEF FreshSlot
  <2>4. 0 \in Nat
    OBVIOUS
  <2> QED
    BY <2>1, <2>3, <2>4, Zenon DEF FreshSlot, BareSlot, Uncounted
<1>7. Bare(t, x)
  BY <1>3, <1>5, <1>6, Zenon DEF Bare
<1> QED
  BY <1>6, <1>7, Zenon DEF x

\* Memory that was zeroed has the slots of all fields.
LEMMA ZeroedSlots ==
    ASSUME NEW t \in DOMAIN Descriptors
    PROVE  LET z == zeroed(Descriptors[t].fields)
           IN  /\ \A s \in DOMAIN z : s \notin Header
               /\ \A f \in RowsOf(t) :
                     /\ f.offset \in DOMAIN z
                     /\ f.quantifier_offset = "descriptor" \/ f.quantifier_offset \in DOMAIN z
                     /\ f.label = "REPEATED" \/ InOneof(f) => z[f.quantifier_offset] = 0
                     /\ f.type = "MESSAGE" \/ InOneof(f) => z[f.offset] = NULL
<1> DEFINE fields == Descriptors[t].fields
           offsets == {fields[k].offset : k \in DOMAIN fields}
           quantifiers == {fields[k].quantifier_offset : k \in DOMAIN fields} \ {"descriptor"}
           P(k, slot) == slot \in {fields[k].offset, fields[k].quantifier_offset}
           at(slot) == fields[CHOOSE k \in DOMAIN fields : P(k, slot)]
           z == zeroed(fields)
<1>1. z = [slot \in offsets \cup quantifiers |->
              IF slot \in offsets THEN Zero(at(slot)) ELSE ZeroQuantifier(at(slot))]
  BY DEF zeroed
<1>2. ASSUME NEW slot, NEW k \in DOMAIN fields, P(k, slot)
      PROVE  at(slot) \in RowsOf(t) /\ slot \in {at(slot).offset, at(slot).quantifier_offset}
  <2> DEFINE j == CHOOSE i \in DOMAIN fields : P(i, slot)
  <2>1. j \in DOMAIN fields /\ P(j, slot)
    BY <1>2, Zenon
  <2> QED
    BY <2>1, Zenon DEF RowsOf
<1>3. \A f \in RowsOf(t) : f.offset \in offsets
  BY Zenon DEF RowsOf
<1>4. \A f \in RowsOf(t) : f.quantifier_offset = "descriptor" \/ f.quantifier_offset \in quantifiers
  <2> SUFFICES ASSUME NEW f \in RowsOf(t)
               PROVE  f.quantifier_offset = "descriptor" \/ f.quantifier_offset \in quantifiers
    OBVIOUS
  <2>1. PICK k \in DOMAIN fields : f = fields[k]
    BY Zenon DEF RowsOf
  <2> QED
    BY <2>1
<1>5. \A s \in offsets : \E f \in RowsOf(t) : s = f.offset
  BY Zenon DEF RowsOf
<1>6. \A s \in quantifiers : s # "descriptor" /\ \E f \in RowsOf(t) : s = f.quantifier_offset
  <2> SUFFICES ASSUME NEW s \in quantifiers
               PROVE  s # "descriptor" /\ \E f \in RowsOf(t) : s = f.quantifier_offset
    OBVIOUS
  <2>1. PICK k \in DOMAIN fields : s = fields[k].quantifier_offset
    OBVIOUS
  <2>2. fields[k] \in RowsOf(t)
    BY Zenon DEF RowsOf
  <2> QED
    BY <2>1, <2>2
<1>7. ASSUME NEW f \in RowsOf(t), NEW slot, slot = f.offset \/ slot = f.quantifier_offset
      PROVE  at(slot) \in RowsOf(t) /\ slot \in {at(slot).offset, at(slot).quantifier_offset}
  <2>1. PICK k \in DOMAIN fields : f = fields[k]
    BY Zenon DEF RowsOf
  <2>2. P(k, slot)
    BY <1>7, <2>1
  <2> HIDE DEF at, P
  <2> QED
    BY <1>2, <2>2, Zenon
<1> HIDE DEF at, offsets, quantifiers
<1>8. /\ DOMAIN z = offsets \cup quantifiers
      /\ \A s \in offsets : z[s] = Zero(at(s))
      /\ \A s \in quantifiers : s \notin offsets => z[s] = ZeroQuantifier(at(s))
  BY <1>1
<1> HIDE DEF z
<1>9. \A f \in RowsOf(t) : Laid(f)
  BY RowLaid, Zenon
<1>10. \A f, g \in RowsOf(t) : f # g => Apart(f, g) /\ Apart(g, f)
  BY RowsApart, Zenon
<1>11. ASSUME NEW s \in DOMAIN z
       PROVE  s \notin Header
  <2>1. CASE s \in offsets
    BY <1>5, <1>9, <2>1, Zenon DEF Laid
  <2>2. CASE s \in quantifiers
    <3>1. PICK f \in RowsOf(t) : s = f.quantifier_offset
      BY <1>6, <2>2, Zenon
    <3>2. s # "descriptor" /\ Laid(f)
      BY <1>6, <1>9, <2>2, Zenon
    <3> QED
      BY <3>1, <3>2 DEF Laid
  <2> QED
    BY <1>8, <2>1, <2>2
<1>12. ASSUME NEW f \in RowsOf(t)
       PROVE  /\ f.label = "REPEATED" \/ InOneof(f) => z[f.quantifier_offset] = 0
              /\ f.type = "MESSAGE" \/ InOneof(f) => z[f.offset] = NULL
  <2> DEFINE o == f.offset
             q == f.quantifier_offset
             a == at(o)
             b == at(q)
  <2>1. a \in RowsOf(t) /\ o \in {a.offset, a.quantifier_offset}
    BY <1>7, Zenon
  <2>2. b \in RowsOf(t) /\ q \in {b.offset, b.quantifier_offset}
    BY <1>7, Zenon
  <2>3. Laid(f) /\ Laid(a) /\ (f # a => Apart(f, a) /\ Apart(a, f)) /\ (f # b => Apart(f, b) /\ Apart(b, f))
    BY <1>9, <1>10, <2>1, <2>2, Zenon
  <2>4. z[o] = Zero(a)
    BY <1>3, <1>8, Zenon
  <2>5. f.type = "MESSAGE" \/ InOneof(f) => Zero(a) = NULL
    <3>1. f = a \/ (InOneof(f) /\ InOneof(a))
      BY <2>1, <2>3, Zenon DEF Apart
    <3> QED
      BY <3>1 DEF Zero, Pointer
  <2>6. f.label = "REPEATED" \/ InOneof(f) => z[q] = 0
    <3> SUFFICES ASSUME f.label = "REPEATED" \/ InOneof(f)
                 PROVE  z[q] = 0
      OBVIOUS
    <3>1. q # "descriptor"
      BY <2>3, Zenon DEF Laid
    <3>2. q \in quantifiers
      BY <1>4, <3>1, Zenon
    <3>3. q \notin offsets
      <4> SUFFICES ASSUME q \in offsets
                   PROVE  FALSE
        OBVIOUS
      <4>1. PICK g \in RowsOf(t) : q = g.offset
        BY <1>5, Zenon
      <4>2. f # g => Apart(g, f)
        BY <1>10, <4>1, Zenon
      <4> QED
        BY <2>3, <4>1, <4>2, Zenon DEF Apart, Laid
    <3>4. z[q] = ZeroQuantifier(b)
      BY <1>8, <3>2, <3>3, Zenon
    <3>5. f = b \/ (InOneof(f) /\ InOneof(b))
      BY <2>2, <2>3, <3>1, Zenon DEF Apart
    <3> QED
      BY <3>4, <3>5 DEF ZeroQuantifier
  <2> HIDE DEF a, b
  <2> QED
    BY <2>4, <2>5, <2>6, Zenon
<1> QED
  BY <1>3, <1>4, <1>8, <1>11, <1>12 DEF z

\* The rounds of message_init_generic.
LEMMA InitRounds ==
    ASSUME NEW type, NEW fields, Len(fields) \in Nat
    PROVE  \E loop : /\ loop[0] = InitValue(type, zeroed(fields))
                     /\ \A k \in 1..Len(fields) : loop[k] = init_default(loop[k - 1], fields[k])
                     /\ message_init_fields(type, fields) = loop[Len(fields)]
<1> DEFINE N == Len(fields)
           G(k, f) == IF k = 0 THEN InitValue(type, zeroed(fields)) ELSE init_default(f[k - 1], fields[k])
           R(j, f) == f = [k \in 0..j |-> G(k, f)]
           loop == CHOOSE f : R(N, f)
           S == {j \in Nat : \E f : R(j, f)}
<1>1. N \in Nat
  OBVIOUS
<1>2. message_init_fields(type, fields) = loop[N]
  BY DEF message_init_fields
<1>3. \A k, f, g : (k # 0 => f[k - 1] = g[k - 1]) => G(k, f) = G(k, g)
  BY Zenon
<1>4. (\A f : G(0, f) = InitValue(type, zeroed(fields)))
      /\ \A k, f : k # 0 => G(k, f) = init_default(f[k - 1], fields[k])
  BY Zenon
<1> HIDE DEF G, N
<1>5. 0 \in S
  <2>1. \A k \in 0..0 : k = 0
    OBVIOUS
  <2>2. [k \in 0..0 |-> G(0, <<>>)] = [k \in 0..0 |-> G(k, [i \in 0..0 |-> G(0, <<>>)])]
    BY <1>3, <2>1, Zenon
  <2> QED
    BY <2>2
<1>6. ASSUME NEW j \in S
      PROVE  j + 1 \in S
  <2>1. PICK f : R(j, f)
    OBVIOUS
  <2> DEFINE g == [k \in 0..(j + 1) |-> G(k, f)]
  <2>2. \A k \in 0..(j + 1) : k # 0 => k - 1 \in 0..j /\ k - 1 \in 0..(j + 1)
    OBVIOUS
  <2>3. \A k \in 0..(j + 1) : k # 0 => f[k - 1] = g[k - 1]
    BY <2>1, <2>2, Zenon
  <2>4. \A k \in 0..(j + 1) : G(k, f) = G(k, g)
    BY <1>3, <2>3, Zenon
  <2>5. R(j + 1, g)
    BY <2>4, Zenon
  <2>6. j \in Nat /\ j + 1 \in Nat
    OBVIOUS
  <2> HIDE DEF g, R
  <2> QED
    BY <2>5, <2>6, Zenon
<1> HIDE DEF S
<1>7. N \in S
  BY <1>1, <1>5, <1>6, Induction DEF S
<1>8. R(N, loop)
  BY <1>7, Zenon DEF S
<1> HIDE DEF loop
<1>9. \A k \in 0..N : loop[k] = G(k, loop)
  BY <1>8, Zenon
<1>10. 0 \in 0..N /\ \A k \in 1..N : k \in 0..N /\ k # 0
  BY <1>1
<1>11. loop[0] = InitValue(type, zeroed(fields)) /\ \A k \in 1..N : loop[k] = init_default(loop[k - 1], fields[k])
  BY <1>4, <1>9, <1>10, Zenon
<1> QED
  BY <1>2, <1>11, Zenon DEF N

\* A zeroed message is fresh.
LEMMA ZeroedFresh ==
    ASSUME NEW t \in DOMAIN Descriptors
    PROVE  Fresh(t, InitValue(t, zeroed(Descriptors[t].fields)))
<1> DEFINE z == zeroed(Descriptors[t].fields)
           base == [descriptor |-> t, blk |-> 0, unknown_fields |-> NULL, unknown |-> <<>>]
           m == InitValue(t, z)
<1>1. /\ \A s \in DOMAIN z : s \notin Header
      /\ \A f \in RowsOf(t) :
            /\ f.offset \in DOMAIN z
            /\ f.quantifier_offset = "descriptor" \/ f.quantifier_offset \in DOMAIN z
            /\ f.label = "REPEATED" \/ InOneof(f) => z[f.quantifier_offset] = 0
            /\ f.type = "MESSAGE" \/ InOneof(f) => z[f.offset] = NULL
  BY ZeroedSlots, Zenon
<1>2. m = [s \in DOMAIN z \cup DOMAIN base |-> IF s \in DOMAIN z THEN z[s] ELSE base[s]]
  BY DEF InitValue
<1> HIDE DEF z
<1>3. DOMAIN base = Header
  BY DEF Header
<1>4. /\ base["descriptor"] = t /\ base["blk"] = 0 /\ base["unknown_fields"] = NULL
      /\ base["unknown"] = <<>>
  OBVIOUS
<1> HIDE DEF base, m
<1>5. /\ DOMAIN m = DOMAIN z \cup Header
      /\ \A s \in DOMAIN z : m[s] = z[s]
      /\ \A s \in Header : m[s] = base[s]
  BY <1>1, <1>2, <1>3
<1>6. {"descriptor", "blk", "unknown_fields", "unknown"} = Header
  BY DEF Header
<1>7. m["descriptor"] = t /\ m["unknown_fields"] = NULL /\ m["unknown"] = <<>>
  BY <1>4, <1>5, <1>6
<1>8. m.descriptor = t /\ m.unknown_fields = NULL /\ m.unknown = <<>>
  BY <1>7
<1>9. FreshHead(t, m)
  BY <1>5, <1>8 DEF FreshHead
<1>10. ASSUME NEW f \in RowsOf(t)
       PROVE  FreshSlot(m, f)
  <2>1. Laid(f) /\ "descriptor" \in Header
    BY <1>6, RowLaid
  <2>2. f.offset \in DOMAIN z /\ m[f.offset] = z[f.offset]
    BY <1>1, <1>5, Zenon
  <2>3. f.quantifier_offset \in DOMAIN m
    BY <1>1, <1>5, <2>1
  <2>4. f.label = "REPEATED" \/ InOneof(f) => m[f.quantifier_offset] = z[f.quantifier_offset]
    <3>1. f.label = "REPEATED" \/ InOneof(f) => f.quantifier_offset \in DOMAIN z
      BY <1>1, <2>1, Zenon DEF Laid
    <3> QED
      BY <1>5, <3>1, Zenon
  <2>5. f.offset \in DOMAIN m
    BY <1>5, <2>2
  <2>6. /\ f.label = "REPEATED" \/ InOneof(f) => z[f.quantifier_offset] = 0
        /\ f.type = "MESSAGE" \/ InOneof(f) => z[f.offset] = NULL
    BY <1>1, Zenon
  <2> QED
    BY <2>2, <2>3, <2>4, <2>5, <2>6, Zenon DEF FreshSlot
<1>11. Fresh(t, m)
  BY <1>9, <1>10, FreshRows, Zenon
<1> QED
  BY <1>11 DEF m, z

\* And stays so when a default is written.
LEMMA DefaultFresh ==
    ASSUME NEW t \in DOMAIN Descriptors, NEW f \in RowsOf(t), NEW m, Fresh(t, m)
    PROVE  Fresh(t, init_default(m, f))
<1> DEFINE o == f.offset
           v == IF f.type \in Pointer THEN f.default_value ELSE f.default_value[1]
           x == [m EXCEPT ![o] = v]
           r == init_default(m, f)
<1>1. FreshHead(t, m) /\ \A g \in RowsOf(t) : FreshSlot(m, g)
  BY FreshRows, Zenon
<1>2. Laid(f)
  BY RowLaid, Zenon
<1>3. CASE f.default_value = NULL \/ f.label = "REPEATED"
  <2>1. r = m
    BY <1>3, Zenon DEF init_default
  <2> QED
    BY <2>1
<1>4. CASE ~ (f.default_value = NULL \/ f.label = "REPEATED")
  <2>1. r = x
    BY <1>4, Zenon DEF init_default
  <2> HIDE DEF v
  <2>2. o \in DOMAIN m /\ Header \subseteq DOMAIN m
    BY <1>1, Zenon DEF FreshSlot, FreshHead
  <2>3. DOMAIN x = DOMAIN m /\ \A s \in DOMAIN m : s # o => x[s] = m[s]
    BY <2>2
  <2>4. /\ {"descriptor", "blk", "unknown_fields", "unknown"} = Header /\ o \notin Header
        /\ f.type # "MESSAGE" /\ ~ InOneof(f) /\ o # f.quantifier_offset
    BY <1>2, <1>4 DEF Header, Laid
  <2> HIDE DEF x, r
  <2>5. /\ x["descriptor"] = m["descriptor"] /\ x["unknown_fields"] = m["unknown_fields"]
        /\ x["unknown"] = m["unknown"]
    BY <2>2, <2>3, <2>4
  <2>6. x.descriptor = m.descriptor /\ x.unknown_fields = m.unknown_fields /\ x.unknown = m.unknown
    BY <2>5
  <2>7. FreshHead(t, x)
    BY <1>1, <2>3, <2>6, Zenon DEF FreshHead
  <2>8. ASSUME NEW g \in RowsOf(t)
        PROVE  FreshSlot(x, g)
    <3>1. FreshSlot(m, g) /\ (g # f => Apart(f, g) /\ Apart(g, f))
      BY <1>1, RowsApart, Zenon
    <3>2. {g.offset, g.quantifier_offset} \subseteq DOMAIN m
      BY <3>1, Zenon DEF FreshSlot
    <3>3. g.quantifier_offset # o
      BY <2>4, <3>1, Zenon DEF Apart
    <3>4. g # f => g.offset # o
      BY <2>4, <3>1, Zenon DEF Apart
    <3>5. x[g.quantifier_offset] = m[g.quantifier_offset] /\ (g # f => x[g.offset] = m[g.offset])
      BY <2>3, <3>2, <3>3, <3>4, Zenon
    <3> QED
      BY <2>3, <2>4, <3>1, <3>2, <3>5, Zenon DEF FreshSlot
  <2>9. Fresh(t, x)
    BY <2>7, <2>8, FreshRows, Zenon
  <2>10. Fresh(t, r)
    BY <2>1, <2>9, Zenon
  <2> QED
    BY <2>10 DEF r
<1> QED
  BY <1>3, <1>4

\* So does message_init_generic, for descriptors without generated code.
LEMMA GenericFresh ==
    ASSUME NEW t \in DOMAIN Descriptors
    PROVE  Fresh(t, message_init_generic(t))
<1> DEFINE fields == Descriptors[t].fields
           N == Len(fields)
<1>1. N \in Nat /\ DOMAIN fields = 1..N
  BY FieldRows, Zenon
<1>2. PICK loop : /\ loop[0] = InitValue(t, zeroed(fields))
                  /\ \A k \in 1..N : loop[k] = init_default(loop[k - 1], fields[k])
                  /\ message_init_fields(t, fields) = loop[N]
  BY <1>1, InitRounds
<1> DEFINE S == {k \in 0..N : Fresh(t, loop[k])}
<1>3. Fresh(t, loop[0])
  BY <1>2, ZeroedFresh, Zenon
<1>4. ASSUME NEW k \in 1..N, Fresh(t, loop[k - 1])
      PROVE  Fresh(t, loop[k])
  <2>1. fields[k] \in RowsOf(t)
    BY <1>1 DEF RowsOf
  <2>2. Fresh(t, init_default(loop[k - 1], fields[k]))
    BY <1>4, <2>1, DefaultFresh, Zenon
  <2> QED
    BY <1>2, <2>2, Zenon
<1> HIDE DEF N
<1>5. N \in Nat /\ 0 \in 0..N /\ \A k \in 1..N : k \in 0..N
  BY <1>1
<1>6. 0 \in S /\ \A k \in 1..N : k - 1 \in S => k \in S
  BY <1>3, <1>4, <1>5, Zenon
<1> HIDE DEF S
<1>7. \A k \in 0..N : k \in S
  BY <1>5, <1>6, Along
<1>8. N \in S
  BY <1>5, <1>7
<1>9. Fresh(t, loop[N])
  BY <1>8, Zenon DEF S
<1> HIDE DEF fields
<1> QED
  BY <1>2, <1>9, Zenon DEF message_init_generic, fields

-----------------------------------------------------------------------------
(* Unpacking a message. *)

\* A message is whole once the arrays were allocated, or were not.
LEMMA AllottedWhole ==
    ASSUME NEW d, NEW t \in DOMAIN Descriptors, NEW s, NEW a,
           Allotted(t, s, Len(Descriptors[t].fields), a)
    PROVE  OfType(d, t, a.m)
<1> DEFINE fields == Descriptors[t].fields
           N == Len(fields)
<1>1. N \in Nat /\ DOMAIN fields = 1..N
  BY FieldRows, Zenon
<1>2. \A j \in 1..N : j <= N
  BY <1>1
<1>3. Bare(t, a.m) /\ \A j \in 1..N : Uncounted(a.m, fields[j])
  BY <1>2, Zenon DEF Allotted
<1>4. \A f \in RowsOf(t) : Uncounted(a.m, f)
  BY <1>1, <1>3, Zenon DEF RowsOf
<1> QED
  BY <1>3, <1>4, BareWhole, Zenon

\* The array of the unknown fields is one block more.
LEMMA UnknownAllocated ==
    ASSUME NEW d, NEW t \in DOMAIN Descriptors, NEW s, IsScan(s), s.h \in Heaps, s.ok \in BOOLEAN,
           OfType(d, t, s.m)
    PROVE  LET r == allocate_unknown(s)
           IN  Going(d, t, s, r) /\ r.members = s.members
<1> DEFINE r == allocate_unknown(s)
           new == do_alloc(s.h)
           x == [s.m EXCEPT !.unknown_fields = <<new.ptr>>]
<1>1. Honest(s.h, s.ok, s.h)
  BY HonestSame, Zenon
<1>2. Honest(s.h, new.ptr # 0, new.h) /\ new.ptr \in Nat
  BY AllocGoes, Zenon
<1> HIDE DEF new
<1>3. CASE ~ s.ok \/ s.n_unknown = 0
  <2>1. r = s
    BY <1>3, Zenon DEF allocate_unknown
  <2> QED
    BY <1>1, <2>1, Zenon DEF Going
<1>4. CASE ~ (~ s.ok \/ s.n_unknown = 0)
  <2>1. r = UnknownArray(s, new)
    BY <1>4, Zenon DEF allocate_unknown, new
  <2>2. CASE new.ptr = 0
    <3>1. r = [s EXCEPT !.ok = FALSE, !.h = new.h]
      BY <2>1, <2>2, Zenon DEF UnknownArray
    <3> HIDE DEF r
    <3>2. /\ DOMAIN r = DOMAIN s /\ r.ok = FALSE /\ r.h = new.h /\ r.m = s.m
          /\ r.slabs = s.slabs /\ r.members = s.members
      BY <3>1 DEF IsScan, ScanState
    <3>3. Honest(s.h, FALSE, new.h)
      BY <1>2, <2>2
    <3>4. Going(d, t, s, r)
      BY <3>2, <3>3, Zenon DEF Going, IsScan
    <3> QED
      BY <3>2, <3>4 DEF r
  <2>3. CASE new.ptr # 0
    <3>1. r = [s EXCEPT !.m.unknown_fields = <<new.ptr>>, !.h = new.h]
      BY <2>1, <2>3, Zenon DEF UnknownArray
    <3> HIDE DEF r
    <3>2. /\ DOMAIN r = DOMAIN s /\ r.ok = s.ok /\ r.h = new.h /\ r.m = x
          /\ r.slabs = s.slabs /\ r.members = s.members
      BY <3>1 DEF IsScan, ScanState
    <3>3. Honest(s.h, TRUE, new.h) /\ s.ok = TRUE
      BY <1>2, <1>4, <2>3
    <3>4. Headed(s.m) /\ s.m.descriptor = t
      BY Zenon DEF OfType, Whole
    <3>5. /\ s.m.descriptor \in DOMAIN Descriptors /\ s.m.blk \in Nat
          /\ s.m.unknown \in Seq(UnknownRecords)
          /\ {"descriptor", "blk", "unknown_fields", "unknown"} \subseteq DOMAIN s.m
          /\ Header \subseteq DOMAIN s.m
      BY <3>4 DEF Headed, Header
    <3>6. /\ x.unknown_fields = <<new.ptr>> /\ x.blk = s.m.blk /\ x.unknown = s.m.unknown
          /\ x.descriptor = s.m.descriptor
          /\ DOMAIN x = DOMAIN s.m /\ \A q \in DOMAIN s.m : q # "unknown_fields" => x[q] = s.m[q]
      BY <3>5
    <3> HIDE DEF x
    <3>7. <<new.ptr>> \in Seq(Nat)
      BY <1>2
    <3>8. Headed(x)
      BY <3>5, <3>6, <3>7, Zenon DEF Headed
    <3>9. \A q \in DOMAIN s.m : q \notin Header \/ q = "descriptor" => x[q] = s.m[q]
      <4>1. "unknown_fields" \in Header /\ "unknown_fields" # "descriptor"
        BY DEF Header
      <4> QED
        BY <3>6, <4>1, Zenon
    <3>10. x.descriptor = t
      BY <3>4, <3>6, Zenon
    <3>11. OfType(d, t, x)
      BY <3>6, <3>8, <3>9, <3>10, OtherChanged, Zenon
    <3>12. Honest(s.h, r.ok, r.h) /\ OfType(d, t, r.m)
      BY <3>2, <3>3, <3>11
    <3>13. Going(d, t, s, r)
      BY <3>2, <3>12, Zenon DEF Going, IsScan
    <3> QED
      BY <3>2, <3>13 DEF r
  <2> QED
    BY <2>2, <2>3
<1> QED
  BY <1>3, <1>4

\* What unpacking a message of type t with heap g returns.
UnpackedWell(d, t, g, r) ==
    /\ Honest(g, r.rv # NULL, r.h)
    /\ r.rv # NULL => OfType(d, t, r.rv[1])

\* The cleanup allocates nothing.
LEMMA CleanupKept ==
    ASSUME NEW h \in Heaps, NEW s, s.slabs \in Seq(Nat), NEW bitmap
    PROVE  Kept(h, cleanup(h, s, bitmap))
<1> DEFINE g == free_blocks(h, s.slabs)
<1>1. Len(s.slabs) \in Nat
  OBVIOUS
<1>2. Kept(h, g)
  BY <1>1, BlocksKept, Zenon
<1>3. Kept(g, do_free(g, bitmap))
  BY <1>2, FreeKept, Zenon DEF Kept
<1>4. Kept(h, do_free(g, bitmap))
  BY <1>2, <1>3, KeptBoth, Zenon
<1> QED
  BY <1>4, Zenon DEF cleanup

\* A scan that failed leaves no message, and has freed it.
LEMMA FailedScan ==
    ASSUME NEW d, NEW t, NEW g \in Heaps, NEW s, s.slabs \in Seq(Nat), NEW ok, Honest(g, ok, s.h),
           NEW blk, NEW bitmap
    PROVE  UnpackedWell(d, t, g, ScanFailed(s, blk, bitmap))
<1> DEFINE h1 == do_free(s.h, blk)
           h2 == cleanup(h1, s, bitmap)
           r == ScanFailed(s, blk, bitmap)
<1>1. s.h \in Heaps
  BY Zenon DEF Honest
<1>2. Kept(s.h, h1)
  BY <1>1, FreeKept, Zenon
<1>3. h1 \in Heaps
  BY <1>2, Zenon DEF Kept
<1> HIDE DEF h1
<1>4. Kept(h1, h2)
  BY <1>3, CleanupKept, Zenon
<1>5. Kept(s.h, h2)
  BY <1>2, <1>4, KeptBoth, Zenon
<1> HIDE DEF h2
<1>6. Honest(g, ok, h2)
  BY <1>5, KeptGoes, Zenon
<1>7. Honest(g, FALSE, h2)
  BY <1>6, Zenon DEF Honest
<1>8. r.rv = NULL /\ r.h = h2
  BY DEF ScanFailed, h1, h2
<1> HIDE DEF r
<1>9. UnpackedWell(d, t, g, r)
  BY <1>7, <1>8 DEF UnpackedWell
<1> QED
  BY <1>9 DEF r

\* Parsing done, the message is whole, or freed with all that was put in it.
LEMMA ParsedDone ==
    ASSUME NEW d \in 0..MaxNesting, NEW t, NEW g \in Heaps, NEW s, s.slabs \in Seq(Nat),
           Honest(g, s.ok, s.h), OfType(d, t, s.m), NEW bitmap
    PROVE  UnpackedWell(d, t, g, ParseDone(s, bitmap))
<1> DEFINE h1 == IF s.ok THEN s.h ELSE protobuf_c_message_free_unpacked(s.m, s.h)
           h2 == cleanup(h1, s, bitmap)
           r == ParseDone(s, bitmap)
<1>1. s.h \in Heaps /\ s.ok \in BOOLEAN /\ Whole(d, s.m)
  BY Zenon DEF Honest, OfType
<1>2. Kept(s.h, h1)
  BY <1>1, FreeUnpackedKept, KeptSame, Zenon
<1>3. h1 \in Heaps
  BY <1>2, Zenon DEF Kept
<1> HIDE DEF h1
<1>4. Kept(h1, h2)
  BY <1>3, CleanupKept, Zenon
<1>5. Kept(s.h, h2)
  BY <1>2, <1>4, KeptBoth, Zenon
<1> HIDE DEF h2
<1>6. Honest(g, s.ok, h2)
  BY <1>5, KeptGoes, Zenon
<1>7. r.rv = (IF s.ok THEN <<s.m>> ELSE NULL) /\ r.h = h2
  BY DEF ParseDone, h1, h2
<1> HIDE DEF r
<1>8. CASE s.ok
  <2>1. r.rv = <<s.m>> /\ <<s.m>> # NULL /\ <<s.m>>[1] = s.m
    BY <1>7, <1>8 DEF NULL
  <2>2. r.rv[1] = s.m /\ r.rv # NULL /\ s.ok = TRUE
    BY <1>1, <1>8, <2>1
  <2>3. Honest(g, r.rv # NULL, r.h)
    BY <1>6, <1>7, <2>2
  <2>4. OfType(d, t, r.rv[1])
    BY <2>2
  <2>5. UnpackedWell(d, t, g, r)
    BY <2>3, <2>4, Zenon DEF UnpackedWell
  <2> QED
    BY <2>5 DEF r
<1>9. CASE ~ s.ok
  <2>1. r.rv = NULL /\ s.ok = FALSE
    BY <1>1, <1>7, <1>9
  <2>2. UnpackedWell(d, t, g, r)
    BY <1>6, <1>7, <2>1 DEF UnpackedWell
  <2> QED
    BY <2>2 DEF r
<1> QED
  BY <1>8, <1>9

\* From the scan to the end.
LEMMA ScanUnpacked ==
    ASSUME NEW unpacked, NEW d \in 0..MaxNesting, UnpacksUnder(unpacked, d),
           NEW t \in DOMAIN Descriptors, NEW g \in Heaps, NEW s, ScanGood(t, g, s), NEW blk, NEW bitmap
    PROVE  UnpackedWell(d, t, g, ScanDone(unpacked, Descriptors[t], s, blk, bitmap))
<1> DEFINE desc == Descriptors[t]
           a == allocate_repeated(desc, s)
           u == allocate_unknown(a)
           p == parse_members(unpacked, u)
           r == ScanDone(unpacked, desc, s, blk, bitmap)
<1>1. /\ IsScan(s) /\ s.slabs \in Seq(Nat) /\ s.members \in Seq(ScannedMembers(t))
      /\ Honest(g, s.ok, s.h) /\ Bare(t, s.m)
  BY Zenon DEF ScanGood
<1>2. s.h \in Heaps /\ s.ok \in BOOLEAN
  BY <1>1, Zenon DEF Honest
<1>3. CASE ~ s.ok
  <2>1. r = ScanFailed(s, blk, bitmap)
    BY <1>3, Zenon DEF ScanDone
  <2>2. UnpackedWell(d, t, g, ScanFailed(s, blk, bitmap))
    BY <1>1, FailedScan, Zenon
  <2> QED
    BY <2>1, <2>2
<1>4. CASE s.ok
  <2>1. r = ParseDone(p, bitmap)
    BY <1>4, Zenon DEF ScanDone
  <2>2. s.ok = TRUE
    BY <1>2, <1>4
  <2>3. Allotted(t, s, Len(desc.fields), a)
    BY <1>1, <1>2, <2>2, AllAllotted, Zenon
  <2> HIDE DEF a
  <2>4. OfType(d, t, a.m)
    BY <2>3, AllottedWhole, Zenon
  <2>5. IsScan(a) /\ a.members = s.members /\ a.slabs = s.slabs /\ Honest(s.h, a.ok, a.h)
    BY <2>3, Zenon DEF Allotted
  <2>6. a.h \in Heaps /\ a.ok \in BOOLEAN
    BY <2>5, Zenon DEF Honest
  <2>7. Going(d, t, a, u) /\ u.members = a.members
    BY <2>4, <2>5, <2>6, UnknownAllocated, Zenon
  <2> HIDE DEF u
  <2>8. IsScan(u) /\ u.slabs = a.slabs /\ Honest(a.h, u.ok, u.h) /\ (u.ok => a.ok) /\ OfType(d, t, u.m)
    BY <2>7, Zenon DEF Going
  <2>9. u.h \in Heaps /\ u.ok \in BOOLEAN
    BY <2>8, Zenon DEF Honest
  <2>10. Len(u.members) \in Nat /\ \A k \in 1..Len(u.members) : Scanned(t, u.members[k])
    <3>1. u.members \in Seq(ScannedMembers(t))
      BY <1>1, <2>5, <2>7
    <3>2. Len(u.members) \in Nat /\ \A k \in 1..Len(u.members) : u.members[k] \in ScannedMembers(t)
      BY <3>1
    <3> QED
      BY <3>2, ScannedAll, Zenon
  <2>11. Going(d, t, u, p)
    BY <2>8, <2>9, <2>10, MembersParsed, Zenon
  <2> HIDE DEF p
  <2>12. p.slabs = u.slabs /\ Honest(u.h, p.ok, p.h) /\ (p.ok => u.ok) /\ OfType(d, t, p.m)
    BY <2>11, Zenon DEF Going
  <2>13. Honest(s.h, u.ok, u.h)
    BY <1>2, <2>5, <2>8, GoesOn, Zenon
  <2>14. Honest(s.h, p.ok, p.h)
    BY <1>2, <2>12, <2>13, GoesOn, Zenon
  <2>15. Honest(g, p.ok, p.h)
    BY <1>1, <1>4, <2>14, GoesOn, Zenon
  <2>16. p.slabs \in Seq(Nat)
    BY <1>1, <2>5, <2>8, <2>12
  <2>17. UnpackedWell(d, t, g, ParseDone(p, bitmap))
    BY <2>12, <2>15, <2>16, ParsedDone, Zenon
  <2> QED
    BY <2>1, <2>17
<1> QED
  BY <1>3, <1>4

\* Unpacking in the message's block.
LEMMA MessageUnpacked ==
    ASSUME NEW unpacked, NEW d \in 0..MaxNesting, UnpacksUnder(unpacked, d),
           NEW t \in DOMAIN Descriptors, NEW init, Fresh(t, init), NEW h \in Heaps,
           NEW blk \in Nat, NEW bitmap, NEW b \in Seq(Byte)
    PROVE  UnpackedWell(d, t, h, unpack_message(unpacked, Descriptors[t], init, h, blk, bitmap, b))
<1> DEFINE desc == Descriptors[t]
           x == [init EXCEPT !.blk = blk]
           last == IF Len(desc.fields) = 0 THEN 0 ELSE 1
           s == [ok |-> TRUE, at |-> b, h |-> h, members |-> <<>>,
                 m |-> x, slabs |-> <<>>,
                 in_slab_index |-> 0, n_unknown |-> 0, bitmap |-> {},
                 last_field |-> last]
<1>1. Bare(t, x)
  BY FreshStarts, Zenon
<1>2. last \in 0..Len(desc.fields)
  <2>1. Len(desc.fields) \in Nat /\ DOMAIN desc.fields = 1..Len(desc.fields)
    BY FieldRows, Zenon
  <2> QED
    BY <2>1
<1> HIDE DEF x, last
<1>3. unpack_message(unpacked, desc, init, h, blk, bitmap, b)
         = ScanDone(unpacked, desc, scan(desc, s), blk, bitmap)
  BY Zenon DEF unpack_message, x, last
<1>4. /\ DOMAIN s = ScanState /\ s.ok = TRUE /\ s.at = b /\ s.h = h /\ s.members = <<>> /\ s.m = x
      /\ s.slabs = <<>> /\ s.last_field = last
  BY DEF ScanState
<1> HIDE DEF s
<1>5. Honest(h, TRUE, h)
  BY HonestSame, Zenon
<1>6. <<>> \in Seq(ScannedMembers(t)) /\ <<>> \in Seq(Nat)
  OBVIOUS
<1>7. ScanGood(t, h, s)
  BY <1>1, <1>2, <1>4, <1>5, <1>6, Zenon DEF ScanGood, IsScan
<1>8. ScanGood(t, h, scan(desc, s))
  BY <1>7, AllScanned, Zenon
<1>9. UnpackedWell(d, t, h, ScanDone(unpacked, desc, scan(desc, s), blk, bitmap))
  BY <1>8, ScanUnpacked, Zenon
<1> QED
  BY <1>3, <1>9

\* With the message's block, and the bitmap's.
LEMMA BlocksUnpacked ==
    ASSUME NEW unpacked, NEW d \in 0..MaxNesting, UnpacksUnder(unpacked, d),
           NEW t \in DOMAIN Descriptors, NEW h \in Heaps, NEW b \in Seq(Byte)
    PROVE  UnpackedWell(d, t, h, message_unpack(unpacked, t, h, b))
<1> DEFINE desc == Descriptors[t]
           init == IF Functions[t] # NULL THEN protobuf_c_message_init(t) ELSE message_init_generic(t)
           m == do_alloc(h)
           w == do_alloc(m.h)
           r == message_unpack(unpacked, t, h, b)
<1>1. Fresh(t, init)
  <2>1. CASE Functions[t] # NULL
    <3>1. Fresh(t, Functions[t][1].init_value)
      BY <2>1, LayoutAssumption, Zenon
    <3> QED
      BY <2>1, <3>1, Zenon DEF protobuf_c_message_init
  <2>2. CASE ~ (Functions[t] # NULL)
    <3>1. Fresh(t, message_init_generic(t))
      BY GenericFresh, Zenon
    <3> QED
      BY <2>2, <3>1, Zenon
  <2> QED
    BY <2>1, <2>2
<1>2. Honest(h, m.ptr # 0, m.h) /\ m.ptr \in Nat
  BY AllocGoes, Zenon
<1>3. m.h \in Heaps
  BY <1>2, Zenon DEF Honest
<1>4. r = UnpackType(unpacked, desc, init, m, b)
  BY Zenon DEF message_unpack
<1> HIDE DEF init, m
<1>5. Honest(m.h, w.ptr # 0, w.h)
  BY <1>3, AllocGoes, Zenon
<1>6. w.h \in Heaps
  BY <1>5, Zenon DEF Honest
<1> HIDE DEF w
<1>7. CASE m.ptr = 0
  <2>1. r = [rv |-> NULL, h |-> m.h]
    BY <1>4, <1>7, Zenon DEF UnpackType
  <2> HIDE DEF r
  <2>2. r.rv = NULL /\ r.h = m.h
    BY <2>1
  <2>3. UnpackedWell(d, t, h, r)
    BY <1>2, <1>7, <2>2 DEF UnpackedWell
  <2> QED
    BY <2>3 DEF r
<1> DEFINE small == (Len(desc.fields) + 7) \div 8 <= BitmapStack
<1>8. CASE m.ptr # 0 /\ small
  <2>1. r = unpack_message(unpacked, desc, init, m.h, m.ptr, 0, b)
    BY <1>4, <1>8, Zenon DEF UnpackType
  <2> HIDE DEF r
  <2>2. UnpackedWell(d, t, m.h, r)
    <3>1. UnpackedWell(d, t, m.h, unpack_message(unpacked, desc, init, m.h, m.ptr, 0, b))
      BY <1>1, <1>2, <1>3, MessageUnpacked, Zenon
    <3> QED
      BY <2>1, <3>1
  <2>3. Honest(m.h, r.rv # NULL, r.h) /\ (r.rv # NULL => OfType(d, t, r.rv[1]))
    BY <2>2, Zenon DEF UnpackedWell
  <2>4. Honest(h, r.rv # NULL, r.h)
    BY <1>2, <1>8, <2>3, GoesOn, Zenon
  <2>5. UnpackedWell(d, t, h, r)
    BY <2>3, <2>4, Zenon DEF UnpackedWell
  <2> QED
    BY <2>5 DEF r
<1>9. CASE m.ptr # 0 /\ ~ small
  <2>1. r = BitmapAllocated(unpacked, desc, init, m.ptr, w, b)
    BY <1>4, <1>9, Zenon DEF UnpackType, w
  <2> HIDE DEF r
  <2>2. CASE w.ptr = 0
    <3> DEFINE f == do_free(w.h, m.ptr)
    <3>1. r = [rv |-> NULL, h |-> f]
      BY <2>1, <2>2, Zenon DEF BitmapAllocated
    <3>2. Kept(w.h, f)
      BY <1>6, FreeKept, Zenon
    <3> HIDE DEF f
    <3>3. r.rv = NULL /\ r.h = f
      BY <3>1
    <3>4. Honest(m.h, FALSE, w.h)
      BY <1>5, <2>2
    <3>5. Honest(m.h, FALSE, f)
      BY <1>3, <3>2, <3>4, KeptGoes, Zenon
    <3>6. Honest(h, FALSE, f)
      BY <1>2, <3>5, GoesOn, Zenon
    <3>7. UnpackedWell(d, t, h, r)
      BY <3>3, <3>6 DEF UnpackedWell
    <3> QED
      BY <3>7 DEF r
  <2>3. CASE w.ptr # 0
    <3>1. r = unpack_message(unpacked, desc, init, w.h, m.ptr, w.ptr, b)
      BY <2>1, <2>3, Zenon DEF BitmapAllocated
    <3>2. UnpackedWell(d, t, w.h, r)
      <4>1. UnpackedWell(d, t, w.h, unpack_message(unpacked, desc, init, w.h, m.ptr, w.ptr, b))
        BY <1>1, <1>2, <1>6, MessageUnpacked, Zenon
      <4> QED
        BY <3>1, <4>1
    <3>3. Honest(w.h, r.rv # NULL, r.h) /\ (r.rv # NULL => OfType(d, t, r.rv[1]))
      BY <3>2, Zenon DEF UnpackedWell
    <3>4. Honest(m.h, r.rv # NULL, r.h)
      BY <1>3, <1>5, <2>3, <3>3, GoesOn, Zenon
    <3>5. Honest(h, r.rv # NULL, r.h)
      BY <1>2, <1>9, <3>4, GoesOn, Zenon
    <3>6. UnpackedWell(d, t, h, r)
      BY <3>3, <3>5, Zenon DEF UnpackedWell
    <3> QED
      BY <3>6 DEF r
  <2> QED
    BY <2>2, <2>3
<1> QED
  BY <1>7, <1>8, <1>9

-----------------------------------------------------------------------------
\* What unpacks on each level is made of what unpacks on the level below.
UnpacksOf(unpacked) ==
    /\ \A t, h, b : protobuf_c_message_unpack(t, h, b) = unpacked[MaxNesting][t][h][b]
    /\ \A n \in 0..MaxNesting :
          unpacked[n] = [t \in DOMAIN Descriptors |-> [g \in Heaps |-> [b \in Seq(Byte) |->
              message_unpack(IF n = 0 THEN Refused ELSE unpacked[n - 1], t, g, b)]]]

\* There are such functions.
LEMMA UnpackLevels == \E unpacked : UnpacksOf(unpacked)
<1> DEFINE N == MaxNesting
           below(n, f) == IF n = 0 THEN Refused ELSE f[n - 1]
           G(n, f) == [t \in DOMAIN Descriptors |-> [g \in Heaps |-> [b \in Seq(Byte) |->
                          message_unpack(below(n, f), t, g, b)]]]
           R(j, f) == f = [n \in 0..j |-> G(n, f)]
           unpacked == CHOOSE f : R(N, f)
           S == {j \in Nat : \E f : R(j, f)}
<1>1. N \in Nat
  BY NestingAssumption
<1>2. \A t, h, b : protobuf_c_message_unpack(t, h, b) = unpacked[N][t][h][b]
  BY DEF protobuf_c_message_unpack
<1>3. \A n, f, h : (n # 0 => f[n - 1] = h[n - 1]) => G(n, f) = G(n, h)
  <2>1. \A n, f, h : (n # 0 => f[n - 1] = h[n - 1]) => below(n, f) = below(n, h)
    BY Zenon
  <2> HIDE DEF below
  <2> QED
    BY <2>1, Zenon
<1> HIDE DEF G
<1>4. 0 \in S
  <2>1. \A n \in 0..0 : n = 0
    OBVIOUS
  <2>2. [n \in 0..0 |-> G(0, <<>>)] = [n \in 0..0 |-> G(n, [i \in 0..0 |-> G(0, <<>>)])]
    BY <1>3, <2>1, Zenon
  <2> QED
    BY <2>2
<1>5. ASSUME NEW j \in S
      PROVE  j + 1 \in S
  <2>1. PICK f : R(j, f)
    OBVIOUS
  <2> DEFINE h == [n \in 0..(j + 1) |-> G(n, f)]
  <2>2. \A n \in 0..(j + 1) : n # 0 => n - 1 \in 0..j /\ n - 1 \in 0..(j + 1)
    OBVIOUS
  <2>3. \A n \in 0..(j + 1) : n # 0 => f[n - 1] = h[n - 1]
    BY <2>1, <2>2, Zenon
  <2>4. \A n \in 0..(j + 1) : G(n, f) = G(n, h)
    BY <1>3, <2>3, Zenon
  <2>5. R(j + 1, h)
    BY <2>4, Zenon
  <2>6. j \in Nat /\ j + 1 \in Nat
    OBVIOUS
  <2> HIDE DEF h, R
  <2> QED
    BY <2>5, <2>6, Zenon
<1> HIDE DEF S
<1>6. N \in S
  BY <1>1, <1>4, <1>5, Induction DEF S
<1>7. R(N, unpacked)
  BY <1>6, Zenon DEF S
<1> HIDE DEF unpacked
<1>8. \A n \in 0..N : unpacked[n] = G(n, unpacked)
  BY <1>7, Zenon
<1>9. ASSUME NEW n \in 0..N
      PROVE  unpacked[n] = [t \in DOMAIN Descriptors |-> [g \in Heaps |-> [b \in Seq(Byte) |->
                message_unpack(IF n = 0 THEN Refused ELSE unpacked[n - 1], t, g, b)]]]
  <2>1. unpacked[n] = G(n, unpacked)
    BY <1>8, Zenon
  <2> QED
    BY <2>1, Zenon DEF G, below
<1>10. UnpacksOf(unpacked)
  BY <1>2, <1>9, Zenon DEF UnpacksOf
<1> QED
  BY <1>10, Zenon

\* What is nested too deep is refused.
LEMMA RefusedUnder == UnpacksUnder(Refused, 0)
<1> SUFFICES ASSUME NEW t \in DOMAIN Descriptors, NEW g \in Heaps, NEW b \in Seq(Byte)
             PROVE  Honest(g, Refused[t][g][b].rv # NULL, Refused[t][g][b].h)
                    /\ Refused[t][g][b].rv = NULL
  BY Zenon DEF UnpacksUnder
<1> DEFINE r == [rv |-> NULL, h |-> g]
<1>1. Refused[t] = [a \in Heaps |-> [c \in Seq(Byte) |-> [rv |-> NULL, h |-> a]]]
  BY Zenon DEF Refused
<1>2. Refused[t][g] = [c \in Seq(Byte) |-> r]
  BY <1>1, Zenon
<1>3. Refused[t][g][b] = r
  BY <1>2, Zenon
<1>4. r.rv = NULL /\ r.h = g
  OBVIOUS
<1> HIDE DEF r
<1>5. Honest(g, FALSE, g)
  BY HonestSame, Zenon
<1> QED
  BY <1>3, <1>4, <1>5

\* protobuf_c_message_unpack returns a whole message of the type, or NULL; and
\* NULL when an allocation failed.
LEMMA Unpacked ==
    ASSUME NEW t \in DOMAIN Descriptors, NEW h \in Heaps, NEW b \in Seq(Byte)
    PROVE  UnpackedWell(MaxNesting, t, h, protobuf_c_message_unpack(t, h, b))
<1> DEFINE N == MaxNesting
<1>1. N \in Nat
  BY NestingAssumption
<1>2. PICK unpacked : UnpacksOf(unpacked)
  BY UnpackLevels, Zenon
<1> DEFINE below(n) == IF n = 0 THEN Refused ELSE unpacked[n - 1]
           Fine(n) == UnpacksUnder(below(n), n)
           S == {n \in 0..N : Fine(n)}
<1>3. ASSUME NEW n \in 0..N, NEW u \in DOMAIN Descriptors, NEW g \in Heaps, NEW c \in Seq(Byte)
      PROVE  unpacked[n][u][g][c] = message_unpack(below(n), u, g, c)
  <2> DEFINE op(x, y, z) == message_unpack(below(n), x, y, z)
             row == [x \in DOMAIN Descriptors |-> [y \in Heaps |-> [z \in Seq(Byte) |-> op(x, y, z)]]]
  <2>1. unpacked[n] = row
    BY <1>2, Zenon DEF UnpacksOf
  <2> HIDE DEF op
  <2>2. row[u] = [y \in Heaps |-> [z \in Seq(Byte) |-> op(u, y, z)]]
    BY Zenon
  <2>3. row[u][g] = [z \in Seq(Byte) |-> op(u, g, z)]
    BY <2>2, Zenon
  <2>4. row[u][g][c] = op(u, g, c)
    BY <2>3, Zenon
  <2> QED
    BY <2>1, <2>4, Zenon DEF op
<1> HIDE DEF below
<1>4. ASSUME NEW n \in 0..N, Fine(n), NEW u \in DOMAIN Descriptors, NEW g \in Heaps, NEW c \in Seq(Byte)
      PROVE  UnpackedWell(n, u, g, unpacked[n][u][g][c])
  <2>1. UnpackedWell(n, u, g, message_unpack(below(n), u, g, c))
    BY <1>4, BlocksUnpacked, Zenon
  <2> QED
    BY <1>3, <2>1
<1>5. Fine(0)
  BY RefusedUnder DEF below
<1>6. ASSUME NEW n \in 1..N, Fine(n - 1)
      PROVE  Fine(n)
  <2>1. n - 1 \in 0..N /\ n # 0 /\ n \in 0..N
    BY <1>1
  <2>2. below(n) = unpacked[n - 1]
    BY <2>1, Zenon DEF below
  <2>3. \A u \in DOMAIN Descriptors, g \in Heaps, c \in Seq(Byte) :
           UnpackedWell(n - 1, u, g, unpacked[n - 1][u][g][c])
    BY <1>4, <1>6, <2>1, Zenon
  <2>4. UnpacksUnder(unpacked[n - 1], n)
    BY <2>1, <2>3, Zenon DEF UnpacksUnder, UnpackedWell
  <2> QED
    BY <2>2, <2>4
<1> HIDE DEF Fine
<1>7. 0 \in S /\ \A n \in 1..N : n - 1 \in S => n \in S
  BY <1>1, <1>5, <1>6
<1> HIDE DEF S
<1>11. \A k \in 0..N : k \in S
  BY <1>1, <1>7, Along
<1>8. N \in S
  BY <1>1, <1>11
<1>9. Fine(N) /\ N \in 0..N
  BY <1>1, <1>8 DEF S
<1>10. UnpackedWell(N, t, h, unpacked[N][t][h][b])
  BY <1>4, <1>9, Zenon
<1> QED
  BY <1>2, <1>10, Zenon DEF UnpacksOf

-----------------------------------------------------------------------------
(* The receiver. *)

ReceiveInv ==
    /\ heap \in Heaps
    /\ stage # "unpacked" => heap.n = 0 /\ heap.fail = 0
    /\ sent \in Seq(Samples) /\ wire \in Seq(Byte)
    /\ stage = "received" => sent # <<>>
    /\ stage = "unpacked" /\ got # NULL => Whole(MaxNesting, got[1])
    /\ NoPartOnFailure

\* A message packed is bytes, and its type is known.
LEMMA SampleBytes ==
    ASSUME NEW m \in Samples
    PROVE  protobuf_c_message_pack(m) \in Seq(Byte) /\ m.descriptor \in DOMAIN Descriptors
<1>1. Packable(m)
  BY SamplePackable
<1>2. Written(protobuf_c_message_pack(m), protobuf_c_message_get_packed_size(m))
  BY <1>1, PackedWritten
<1>3. 0 \in 0..MaxNesting
  BY NestingAssumption
<1>4. m \in Nested(m)[0]
  BY NestedLevels, Zenon
<1>5. IsMessage(m)
  BY <1>1, <1>3, <1>4, Zenon DEF Packable
<1> QED
  BY <1>2, <1>5, Zenon DEF IsMessage, Written

\* It holds at the start.
LEMMA ReceiveStarts == Init => ReceiveInv
<1> SUFFICES ASSUME Init PROVE ReceiveInv
  OBVIOUS
<1>1. stage = "sending" /\ sent = <<>> /\ wire = <<>> /\ heap = Heap(0)
  BY Zenon DEF Init
<1>2. Heap(0) \in Heaps /\ Heap(0).n = 0 /\ Heap(0).fail = 0
  BY DEF Heaps, Heap
<1>3. <<>> \in Seq(Samples) /\ <<>> \in Seq(Byte)
  OBVIOUS
<1> QED
  BY <1>1, <1>2, <1>3 DEF ReceiveInv, NoPartOnFailure

\* Unpacking keeps it.
LEMMA UnpackKeeps ==
    ASSUME ReceiveInv, NEW type \in DOMAIN Descriptors, NEW fail \in 0..MaxFail, Unpack(type, fail)
    PROVE  ReceiveInv'
<1> DEFINE h == [heap EXCEPT !.fail = fail]
           u == protobuf_c_message_unpack(type, h, wire)
<1>1. /\ stage = "received" /\ got' = u.rv /\ heap' = u.h /\ stage' = "unpacked"
      /\ sent' = sent /\ wire' = wire
  BY DEF Unpack
<1>2. heap \in Heaps /\ heap.n = 0 /\ wire \in Seq(Byte) /\ sent \in Seq(Samples)
  BY <1>1 DEF ReceiveInv
<1>3. fail \in Nat
  BY BoundsAssumption
<1>4. h \in Heaps /\ h.n = 0 /\ h.fail = fail
  BY <1>2, <1>3 DEF Heaps
<1> HIDE DEF h
<1>5. UnpackedWell(MaxNesting, type, h, u)
  BY <1>2, <1>4, Unpacked, Zenon
<1> HIDE DEF u
<1>6. Honest(h, u.rv # NULL, u.h) /\ (u.rv # NULL => OfType(MaxNesting, type, u.rv[1]))
  BY <1>5, Zenon DEF UnpackedWell
<1>7. u.h \in Heaps /\ (u.rv # NULL => Whole(MaxNesting, u.rv[1]))
  BY <1>6, Zenon DEF Honest, OfType
<1>8. ~ Failed(h)
  BY <1>3, <1>4 DEF Failed
<1>9. Failed(u.h) => u.rv = NULL
  BY <1>6, <1>8 DEF Honest
<1>10. NoPartOnFailure'
  BY <1>1, <1>9 DEF NoPartOnFailure, Failed
<1> QED
  BY <1>1, <1>2, <1>7, <1>10 DEF ReceiveInv

\* So does freeing.
LEMMA FreeKeeps ==
    ASSUME ReceiveInv, FreeUnpacked
    PROVE  ReceiveInv'
<1> DEFINE h == IF got = NULL THEN heap ELSE protobuf_c_message_free_unpacked(got[1], heap)
<1>1. /\ stage = "unpacked" /\ heap' = [h EXCEPT !.n = 0, !.fail = 0] /\ stage' = "sending"
      /\ sent' = <<>> /\ wire' = <<>>
  BY DEF FreeUnpacked
<1>2. heap \in Heaps /\ (got # NULL => Whole(MaxNesting, got[1]))
  BY <1>1 DEF ReceiveInv
<1>3. MaxNesting \in 0..MaxNesting
  BY NestingAssumption
<1>4. Kept(heap, h)
  BY <1>2, <1>3, FreeUnpackedKept, KeptSame, Zenon
<1>5. h \in Heaps
  BY <1>4, Zenon DEF Kept
<1> HIDE DEF h
<1>6. heap' \in Heaps /\ heap'.n = 0 /\ heap'.fail = 0
  BY <1>1, <1>5 DEF Heaps
<1>7. <<>> \in Seq(Samples) /\ <<>> \in Seq(Byte)
  OBVIOUS
<1> QED
  BY <1>1, <1>6, <1>7 DEF ReceiveInv, NoPartOnFailure

\* And every other step.
LEMMA ReceiveSteps == ReceiveInv /\ [Next]_vars => ReceiveInv'
<1> SUFFICES ASSUME ReceiveInv, [Next]_vars PROVE ReceiveInv'
  OBVIOUS
<1>1. /\ heap \in Heaps
      /\ stage # "unpacked" => heap.n = 0 /\ heap.fail = 0
      /\ sent \in Seq(Samples) /\ wire \in Seq(Byte)
      /\ stage = "received" => sent # <<>>
  BY Zenon DEF ReceiveInv
<1>2. CASE UNCHANGED vars
  BY <1>2 DEF vars, ReceiveInv, NoPartOnFailure, Failed
<1>3. ASSUME NEW m \in Samples, PackMessage(m)
      PROVE  ReceiveInv'
  <2>1. /\ stage = "sending" /\ sent' = Append(sent, m)
        /\ wire' = wire \o protobuf_c_message_pack(m) /\ UNCHANGED <<stage, heap>>
    BY <1>3 DEF PackMessage
  <2>2. protobuf_c_message_pack(m) \in Seq(Byte)
    BY SampleBytes
  <2>3. sent \in Seq(Samples) /\ wire \in Seq(Byte)
    BY <1>1, <2>1
  <2>4. sent' \in Seq(Samples) /\ wire' \in Seq(Byte)
    BY <2>1, <2>2, <2>3
  <2> QED
    BY <1>1, <2>1, <2>4 DEF ReceiveInv, NoPartOnFailure
<1>4. ASSUME NEW m \in Samples, NEW fail, PackToBuffer(m, fail)
      PROVE  ReceiveInv'
  <2>1. stage = "sending" /\ stage' = "buffered" /\ sent' = <<m>> /\ wire' = wire /\ heap' = heap
    BY <1>4 DEF PackToBuffer
  <2> QED
    BY <1>1, <2>1 DEF ReceiveInv, NoPartOnFailure
<1>5. CASE ClearBuffer
  <2>1. stage = "buffered" /\ stage' = "sending" /\ sent' = <<>> /\ wire' = wire /\ heap' = heap
    BY <1>5 DEF ClearBuffer
  <2>2. <<>> \in Seq(Samples)
    OBVIOUS
  <2> QED
    BY <1>1, <2>1, <2>2 DEF ReceiveInv, NoPartOnFailure
<1>6. ASSUME NEW k \in 0..Len(wire), Receive(k)
      PROVE  ReceiveInv'
  <2>1. /\ stage = "sending" /\ sent # <<>> /\ wire' = SubSeq(wire, 1, k) /\ stage' = "received"
        /\ UNCHANGED <<sent, heap>>
    BY <1>6 DEF Receive
  <2>2. wire \in Seq(Byte) /\ sent \in Seq(Samples)
    BY <1>1, <2>1
  <2>3. wire' \in Seq(Byte)
    BY <2>1, <2>2
  <2> QED
    BY <1>1, <2>1, <2>2, <2>3 DEF ReceiveInv, NoPartOnFailure
<1>7. ASSUME stage = "received", NEW type \in Readers(sent[1].descriptor), NEW fail \in 0..MaxFail,
             Unpack(type, fail)
      PROVE  ReceiveInv'
  <2>1. sent \in Seq(Samples) /\ sent # <<>>
    BY <1>1, <1>7
  <2>2. sent[1] \in Samples
    BY <2>1
  <2>3. sent[1].descriptor \in DOMAIN Descriptors
    BY <2>2, SampleBytes
  <2>4. type \in DOMAIN Descriptors
    BY <2>3, ReadersAssumption
  <2> QED
    BY <1>7, <2>4, UnpackKeeps
<1>8. CASE FreeUnpacked
  BY <1>8, FreeKeeps
<1> QED
  BY <1>2, <1>3, <1>4, <1>5, <1>6, <1>7, <1>8, Zenon DEF Next

\* Nothing was done yet of which C does not say what comes of it: in particular
\* no length was taken that is below its prefix (PrefixedLen).
Defined == heap.faults = {}

\* Whatever is received, and whichever allocation fails: what is unpacked then
\* is no message.  This is said of what C defines: of bytes whose length wraps,
\* nothing can be.
THEOREM FailuresLeaveNoPart == Spec => [](Defined => NoPartOnFailure)
<1>1. ReceiveInv => (Defined => NoPartOnFailure)
  BY Zenon DEF ReceiveInv
<1> QED
  BY <1>1, ReceiveStarts, ReceiveSteps, PTL DEF Spec

\* Whatever is received, a message that is unpacked is whole: as many elements
\* as its counts say, the member of a oneof that its case says, and each
\* submessage of its field's type and whole itself.  Again of what C defines.
THEOREM MessagesAreWhole ==
    Spec => [](Defined /\ stage = "unpacked" /\ got # NULL => Whole(MaxNesting, got[1]))
<1>1. ReceiveInv => (Defined /\ stage = "unpacked" /\ got # NULL => Whole(MaxNesting, got[1]))
  BY Zenon DEF ReceiveInv
<1> QED
  BY <1>1, ReceiveStarts, ReceiveSteps, PTL DEF Spec

-----------------------------------------------------------------------------
(* The blocks of the heap. *)

\* A heap with no fault.
Clean(h) == h \in Heaps /\ h.faults = {}
\* The heap when the blocks B were freed.
Without(h, B) == [h EXCEPT !.live = @ \ B]

\* It has all else.
LEMMA WithoutSome ==
    ASSUME NEW h, Clean(h), NEW B
    PROVE  /\ Clean(Without(h, B)) /\ Kept(h, Without(h, B))
           /\ Without(h, B).live = h.live \ B
BY DEF Clean, Without, Heaps, Kept

\* Freeing some and then others.
LEMMA WithoutBoth ==
    ASSUME NEW h, Clean(h), NEW A, NEW B
    PROVE  Without(Without(h, A), B) = Without(h, A \cup B)
<1>1. (h.live \ A) \ B = h.live \ (A \cup B)
  OBVIOUS
<1> QED
  BY <1>1 DEF Clean, Without, Heaps

\* Freeing none.
LEMMA WithoutNone ==
    ASSUME NEW h, Clean(h)
    PROVE  Without(h, {}) = h
<1>1. h.live \ {} = h.live
  OBVIOUS
<1> QED
  BY <1>1 DEF Clean, Without, Heaps

\* do_free of a block that is live, or of none.
LEMMA FreeOne ==
    ASSUME NEW h, Clean(h), NEW blk, blk = 0 \/ blk \in h.live
    PROVE  do_free(h, blk) = Without(h, {blk} \ {0})
<1>1. CASE blk = 0
  <2>1. {blk} \ {0} = {}
    BY <1>1
  <2> QED
    BY <1>1, <2>1, WithoutNone DEF do_free
<1>2. CASE blk # 0
  <2>1. {blk} \ {0} = {blk} /\ blk \in h.live
    BY <1>2
  <2> QED
    BY <1>2, <2>1 DEF do_free, Without
<1> QED
  BY <1>1, <1>2

\* A loop that frees B[k] in its round k.
FreesEach(t, h, N, B) ==
    /\ t[0] = h
    /\ \A k \in 1..N :
          Clean(t[k - 1]) /\ B[k] \subseteq t[k - 1].live => t[k] = Without(t[k - 1], B[k])
Apiece(N, B) == \A i, j \in 1..N : i # j => B[i] \cap B[j] = {}
Together(N, B, A) == \A x : x \in A <=> \E k \in 1..N : x \in B[k]
FreesApart(t, h, N, B, A) ==
    /\ N \in Nat /\ Clean(h) /\ A \subseteq h.live
    /\ FreesEach(t, h, N, B) /\ Apiece(N, B) /\ Together(N, B, A)

\* It frees all of them, when they are apart.
LEMMA FreesAll ==
    ASSUME NEW t, NEW h, NEW N, NEW B, NEW A, FreesApart(t, h, N, B, A)
    PROVE  t[N] = Without(h, A)
<1>6. /\ N \in Nat /\ Clean(h) /\ A \subseteq h.live
      /\ FreesEach(t, h, N, B) /\ Apiece(N, B) /\ Together(N, B, A)
  BY Zenon DEF FreesApart
<1> DEFINE U(k) == UNION {B[i] : i \in 1..k}
           S == {k \in 0..N : t[k] = Without(h, U(k))}
<1>1. U(0) = {}
  OBVIOUS
<1>2. 0 \in S
  <2>1. t[0] = Without(h, U(0))
    BY <1>1, <1>6, WithoutNone DEF FreesEach
  <2> QED
    BY <1>6, <2>1
<1>3. ASSUME NEW k \in 1..N, k - 1 \in S
      PROVE  k \in S
  <2>1. U(k) = U(k - 1) \cup B[k]
    <3>1. 1..k = (1..(k - 1)) \cup {k}
      OBVIOUS
    <3> QED
      BY <3>1, Zenon
  <2>2. \A i \in 1..(k - 1) : i \in 1..N /\ i # k
    BY <1>6
  <2>3. U(k - 1) \cap B[k] = {}
    <3> SUFFICES ASSUME NEW i \in 1..(k - 1), NEW x \in B[i], x \in B[k]
                 PROVE  FALSE
      OBVIOUS
    <3> QED
      BY <1>6, <2>2 DEF Apiece
  <2>9. B[k] \subseteq h.live
    BY <1>6 DEF Together
  <2> HIDE DEF U
  <2>4. t[k - 1] = Without(h, U(k - 1))
    BY <1>3 DEF S
  <2>5. Clean(t[k - 1]) /\ t[k - 1].live = h.live \ U(k - 1)
    BY <1>6, <2>4, WithoutSome
  <2>6. B[k] \subseteq t[k - 1].live
    BY <2>3, <2>5, <2>9, Zenon
  <2>7. t[k] = Without(t[k - 1], B[k])
    BY <1>6, <2>5, <2>6, Zenon DEF FreesEach
  <2>8. t[k] = Without(h, U(k))
    BY <1>6, <2>1, <2>4, <2>7, WithoutBoth
  <2> QED
    BY <2>8 DEF S
<1> HIDE DEF S
<1>4. N \in S
  BY <1>2, <1>3, <1>6, Along
<1>5. U(N) = A
  <2>1. \A x : x \in U(N) <=> x \in A
    BY <1>6 DEF Together
  <2> HIDE DEF U
  <2> QED
    BY <2>1
<1> QED
  BY <1>4, <1>5 DEF S

\* free_blocks, of blocks each in one place or 0.
LEMMA BlocksFreed ==
    ASSUME NEW h, Clean(h), NEW s \in Seq(Nat),
           \A i, j \in DOMAIN s : i # j /\ s[i] = s[j] => s[i] = 0,
           ToSet(s) \ {0} \subseteq h.live
    PROVE  free_blocks(h, s) = Without(h, ToSet(s) \ {0})
<1> DEFINE N == Len(s)
           B == [k \in 1..N |-> {s[k]} \ {0}]
<1>1. N \in Nat /\ DOMAIN s = 1..N /\ ToSet(s) = {s[k] : k \in 1..N}
  BY DEF ToSet
<1>2. PICK t : /\ t[0] = h
               /\ \A k \in 1..N : t[k] = do_free(t[k - 1], s[k])
               /\ free_blocks(h, s) = t[N]
  BY <1>1, BlocksRounds, Zenon DEF Clean
<1> HIDE DEF N
<1>3. \A k \in 1..N : B[k] = {s[k]} \ {0}
  OBVIOUS
<1> HIDE DEF B
<1>4. ASSUME NEW k \in 1..N, Clean(t[k - 1]), B[k] \subseteq t[k - 1].live
      PROVE  t[k] = Without(t[k - 1], B[k])
  <2>1. s[k] = 0 \/ s[k] \in t[k - 1].live
    BY <1>3, <1>4, Zenon
  <2> QED
    BY <1>2, <1>3, <1>4, <2>1, FreeOne
<1>5. FreesEach(t, h, N, B)
  BY <1>2, <1>4, Zenon DEF FreesEach
<1>6. Apiece(N, B)
  BY <1>1, <1>3 DEF Apiece
<1>7. Together(N, B, ToSet(s) \ {0})
  BY <1>1, <1>3 DEF Together
<1>8. t[N] = Without(h, ToSet(s) \ {0})
  <2>1. FreesApart(t, h, N, B, ToSet(s) \ {0})
    BY <1>1, <1>5, <1>6, <1>7, Zenon DEF FreesApart
  <2> QED
    BY <2>1, FreesAll, Zenon
<1> QED
  BY <1>2, <1>8, Zenon

\* free_text, of what a slot or an element of an array holds.
LEMMA TextFreed ==
    ASSUME NEW h, Clean(h), NEW f, f.type \in Text, NEW p, BlockOfText(f, p) \subseteq h.live,
           NEW default, default = IF f.label = "REPEATED" THEN NULL ELSE f.default_value
    PROVE  free_text(h, p, default) = Without(h, BlockOfText(f, p))
<1>1. CASE p = NULL \/ p = default
  <2>1. BlockOfText(f, p) = {}
    BY <1>1, Zenon DEF BlockOfText
  <2> QED
    BY <1>1, <2>1, WithoutNone, Zenon DEF free_text
<1>2. CASE ~ (p = NULL \/ p = default)
  <2>1. BlockOfText(f, p) = {p[1].blk}
    BY <1>2, Zenon DEF BlockOfText
  <2>2. p[1].blk \in h.live
    BY <2>1, Zenon
  <2>3. p[1].blk # 0
    BY <2>2 DEF Clean, Heaps
  <2>4. {p[1].blk} \ {0} = {p[1].blk}
    BY <2>3, Zenon
  <2> QED
    BY <1>2, <2>1, <2>2, <2>4, FreeOne, Zenon DEF free_text
<1> QED
  BY <1>1, <1>2

-----------------------------------------------------------------------------
(* The blocks of a message. *)

\* Those of the message itself.
Own(m) == ToSet(OwnBlocks(m)) \ {0}

\* What ends before the last level has nothing there.
LEMMA NoneBelow ==
    ASSUME NEW d \in 0..MaxNesting, d < MaxNesting, NEW x, Whole(d, x)
    PROVE  Nested(x)[MaxNesting] = {}
<1> DEFINE N == MaxNesting
           S == {k \in 0..N : k > d => Nested(x)[k] = {}}
<1>1. N \in Nat /\ d \in Nat /\ d + 1 \in 1..N
  BY NestingAssumption
<1>2. Deep(d, x)
  BY DeepWhole
<1>3. \A y \in Nested(x)[d] : Submessages(y) = {}
  BY <1>1, <1>2 DEF Deep
<1>4. 0 \in S
  BY <1>1
<1>5. ASSUME NEW k \in 1..N, k - 1 \in S
      PROVE  k \in S
  <2> SUFFICES ASSUME k > d
               PROVE  Nested(x)[k] = {}
    BY <1>5
  <2>1. Nested(x)[k] = UNION {Submessages(y) : y \in Nested(x)[k - 1]}
    BY NestedLevels, Zenon
  <2>2. CASE k - 1 = d
    BY <1>3, <2>1, <2>2
  <2>3. CASE k - 1 # d
    <3>1. k - 1 > d
      BY <1>1, <2>3
    <3>2. Nested(x)[k - 1] = {}
      BY <1>5, <3>1
    <3> QED
      BY <2>1, <3>2
  <2> QED
    BY <2>2, <2>3
<1> HIDE DEF S
<1>6. N \in S
  BY <1>1, <1>4, <1>5, Along
<1> QED
  BY <1>1, <1>6 DEF S

\* What lies within a message: itself, and what lies within those below.
LEMMA WithinSubs ==
    ASSUME NEW d \in 0..MaxNesting, NEW m, Whole(d, m), NEW y
    PROVE  y \in Within(m) <=> y = m \/ \E x \in Submessages(m) : y \in Within(x)
<1> DEFINE N == MaxNesting
<1>1. N \in Nat
  BY NestingAssumption
<1>2. Nested(m)[0] = {m}
  BY NestedLevels
<1>3. \A z : y \in Within(z) <=> \E k \in 0..N : y \in Nested(z)[k]
  BY DEF Within
<1>4. ASSUME y \in Within(m), y # m
      PROVE  \E x \in Submessages(m) : y \in Within(x)
  <2>1. PICK k \in 0..N : y \in Nested(m)[k]
    BY <1>3, <1>4
  <2>2. k \in 1..N /\ k - 1 \in 0..N
    BY <1>1, <1>2, <1>4, <2>1
  <2>3. Nested(m)[k] = UNION {Nested(x)[k - 1] : x \in Submessages(m)}
    BY <2>2, NestedBelow, Zenon
  <2>4. PICK x \in Submessages(m) : y \in Nested(x)[k - 1]
    BY <2>1, <2>3, Zenon
  <2> QED
    BY <1>3, <2>2, <2>4, Zenon
<1>5. ASSUME NEW x \in Submessages(m), y \in Within(x)
      PROVE  y \in Within(m)
  <2>1. PICK k \in 0..N : y \in Nested(x)[k]
    BY <1>3, <1>5
  <2>2. d # 0 /\ d - 1 \in 0..N /\ Whole(d - 1, x)
    BY WholeBelow, Zenon
  <2>3. k # N
    BY <1>1, <2>1, <2>2, NoneBelow
  <2>4. k + 1 \in 1..N /\ k + 1 \in 0..N /\ (k + 1) - 1 = k
    BY <1>1, <2>3
  <2>5. Nested(m)[k + 1] = UNION {Nested(z)[(k + 1) - 1] : z \in Submessages(m)}
    BY <2>4, NestedBelow, Zenon
  <2>6. y \in Nested(m)[k + 1]
    BY <2>1, <2>4, <2>5, Zenon
  <2> QED
    BY <1>3, <2>4, <2>6, Zenon
<1>6. m \in Within(m)
  BY <1>1, <1>2 DEF Within
<1> QED
  BY <1>4, <1>5, <1>6, Zenon

\* What a field holds is below the message, and nothing else.
LEMMA HeldBelow ==
    ASSUME NEW m, NEW f \in RowsOf(m.descriptor), f.type = "MESSAGE",
           NEW p \in ToSet(Held(m, f)), p # NULL
    PROVE  p[1] \in Submessages(m)
<1>1. PICK i \in DOMAIN FieldsOf(m) : f = FieldsOf(m)[i]
  BY Zenon DEF RowsOf, FieldsOf
<1>2. \E k \in DOMAIN Held(m, f) : Held(m, f)[k] = p
  BY DEF ToSet
<1> QED
  BY <1>1, <1>2, SubmessageHeld, Zenon

LEMMA BelowHeld ==
    ASSUME NEW m, NEW x \in Submessages(m)
    PROVE  \E f \in RowsOf(m.descriptor) :
              f.type = "MESSAGE" /\ \E p \in ToSet(Held(m, f)) : p # NULL /\ p[1] = x
<1>1. PICK i \in DOMAIN FieldsOf(m) :
         /\ FieldsOf(m)[i].type = "MESSAGE"
         /\ \E k \in DOMAIN Held(m, FieldsOf(m)[i]) :
               /\ Held(m, FieldsOf(m)[i])[k] # NULL
               /\ Held(m, FieldsOf(m)[i])[k][1] = x
  BY SubmessageHeld
<1>2. FieldsOf(m)[i] \in RowsOf(m.descriptor)
  BY Zenon DEF RowsOf, FieldsOf
<1>3. \A s, p : p \in ToSet(s) <=> \E k \in DOMAIN s : s[k] = p
  BY DEF ToSet
<1> QED
  BY <1>1, <1>2, <1>3, Zenon

\* A block is one of a field.
LEMMA InField ==
    ASSUME NEW m, NEW f, NEW b
    PROVE  b \in FieldBlocks(m, f) <=>
              b \in ArrayBlock(m, f) \/ \E p \in ToSet(Held(m, f)) : b \in ValueBlocks(f, p)
BY Zenon DEF FieldBlocks

\* A block is one of a value.
LEMMA InValue ==
    ASSUME NEW f, NEW p, NEW b
    PROVE  b \in ValueBlocks(f, p) <=>
              IF f.type = "MESSAGE" THEN p # NULL /\ b \in Blocks(p[1]) ELSE b \in BlockOfText(f, p)
BY DEF ValueBlocks

\* The blocks of a message are its own and those of its fields.
LEMMA BlocksSplit ==
    ASSUME NEW d \in 0..MaxNesting, NEW m, Whole(d, m), NEW b
    PROVE  b \in Blocks(m) <=>
              b \in Own(m) \/ \E f \in RowsOf(m.descriptor) : b \in FieldBlocks(m, f)
<1> DEFINE rows == RowsOf(m.descriptor)
           InText(f) == \E p \in ToSet(Held(m, f)) : b \in BlockOfText(f, p)
           OfField(f) == ArrayBlock(m, f) \cup UNION {BlockOfText(f, p) : p \in ToSet(Held(m, f))}
<1>1. BlocksAlone(m) = Own(m) \cup UNION {OfField(f) : f \in rows}
  <2> DEFINE fields == FieldsOf(m)
  <2>1. BlocksAlone(m) = Own(m) \cup UNION {OfField(fields[i]) : i \in DOMAIN fields}
    BY DEF BlocksAlone, Own, FieldsOf
  <2> HIDE DEF OfField
  <2>2. {OfField(fields[i]) : i \in DOMAIN fields} = {OfField(f) : f \in rows}
    BY DEF RowsOf, FieldsOf
  <2> QED
    BY <2>1, <2>2
<1>2. \A f : b \in OfField(f) <=> b \in ArrayBlock(m, f) \/ InText(f)
  BY Zenon
<1> HIDE DEF OfField
<1>3. b \in BlocksAlone(m) <=>
         b \in Own(m) \/ \E f \in rows : b \in ArrayBlock(m, f) \/ InText(f)
  BY <1>1, <1>2, Zenon
<1>4. \A z : b \in Blocks(z) <=> \E y \in Within(z) : b \in BlocksAlone(y)
  BY DEF Blocks
<1>5. b \in Blocks(m) <=> b \in BlocksAlone(m) \/ \E x \in Submessages(m) : b \in Blocks(x)
  BY <1>4, WithinSubs
<1>6. \A f, p : f.type = "MESSAGE" => ~ (b \in BlockOfText(f, p))
  BY DEF BlockOfText, Text
<1>7. ASSUME NEW x \in Submessages(m), b \in Blocks(x)
      PROVE  \E f \in rows : b \in FieldBlocks(m, f)
  <2>1. PICK f \in rows : f.type = "MESSAGE" /\ \E p \in ToSet(Held(m, f)) : p # NULL /\ p[1] = x
    BY BelowHeld
  <2>2. PICK p \in ToSet(Held(m, f)) : p # NULL /\ p[1] = x
    BY <2>1
  <2>3. b \in ValueBlocks(f, p)
    BY <1>7, <2>1, <2>2, InValue
  <2> QED
    BY <2>2, <2>3, InField, Zenon
<1>8. ASSUME NEW f \in rows, b \in FieldBlocks(m, f)
      PROVE  b \in BlocksAlone(m) \/ \E x \in Submessages(m) : b \in Blocks(x)
  <2>1. CASE b \in ArrayBlock(m, f)
    BY <1>3, <2>1, Zenon
  <2>2. CASE \E p \in ToSet(Held(m, f)) : b \in ValueBlocks(f, p)
    BY <1>3, <2>2, InValue, HeldBelow, Zenon
  <2> QED
    BY <1>8, <2>1, <2>2, InField, Zenon
<1>9. ASSUME b \in BlocksAlone(m)
      PROVE  b \in Own(m) \/ \E f \in rows : b \in FieldBlocks(m, f)
  BY <1>3, <1>6, <1>9, InField, InValue, Zenon
<1>10. b \in Own(m) => b \in BlocksAlone(m)
  BY <1>3, Zenon
<1> QED
  BY <1>5, <1>7, <1>8, <1>9, <1>10, Zenon

-----------------------------------------------------------------------------
(* The blocks are in one place each. *)

Distinct(s) == \A i, j \in DOMAIN s : i # j /\ s[i] = s[j] => s[i] = 0
Disjoint(m) ==
    /\ Distinct(OwnBlocks(m))
    /\ \A f \in RowsOf(m.descriptor) :
          /\ FieldBlocks(m, f) \cap Own(m) = {}
          /\ \A g \in RowsOf(m.descriptor) : f # g => FieldBlocks(m, f) \cap FieldBlocks(m, g) = {}
\* In an array too, which is there when it has an element.
Parted(m, f) ==
    LET held == Held(m, f)
    IN  \A k \in DOMAIN held :
           /\ ValueBlocks(f, held[k]) \cap ArrayBlock(m, f) = {}
           /\ \A l \in DOMAIN held :
                 k # l => ValueBlocks(f, held[k]) \cap ValueBlocks(f, held[l]) = {}
Backed(m, f) ==
    f.label = "REPEATED" /\ m[f.offset] = NULL => m[f.quantifier_offset] = 0
Single(m) ==
    Disjoint(m) /\ \A f \in RowsOf(m.descriptor) : Parted(m, f) /\ Backed(m, f)
Sound(m) == \A x \in Within(m) : Single(x)

\* The same by fields: those below are sound.
HeldSound(m, f) ==
    f.type = "MESSAGE" => \A p \in ToSet(Held(m, f)) : p # NULL => Sound(p[1])
FieldLoose(m, f) == Parted(m, f) /\ Backed(m, f) /\ HeldSound(m, f)
Loose(m) == Disjoint(m) /\ \A f \in RowsOf(m.descriptor) : FieldLoose(m, f)

LEMMA SoundSplit ==
    ASSUME NEW d \in 0..MaxNesting, NEW m, Whole(d, m)
    PROVE  Sound(m) <=> Loose(m)
<1>1. Sound(m) <=> Single(m) /\ \A x \in Submessages(m) : Sound(x)
  BY WithinSubs, Zenon DEF Sound
<1>2. (\A x \in Submessages(m) : Sound(x)) <=> \A f \in RowsOf(m.descriptor) : HeldSound(m, f)
  <2>1. ASSUME \A x \in Submessages(m) : Sound(x), NEW f \in RowsOf(m.descriptor)
        PROVE  HeldSound(m, f)
    BY <2>1, HeldBelow, Zenon DEF HeldSound
  <2>2. ASSUME \A f \in RowsOf(m.descriptor) : HeldSound(m, f), NEW x \in Submessages(m)
        PROVE  Sound(x)
    <3>1. PICK f \in RowsOf(m.descriptor) :
             f.type = "MESSAGE" /\ \E p \in ToSet(Held(m, f)) : p # NULL /\ p[1] = x
      BY BelowHeld
    <3> QED
      BY <2>2, <3>1 DEF HeldSound
  <2> QED
    BY <2>1, <2>2, Zenon
<1>3. Loose(m) <=> Single(m) /\ \A f \in RowsOf(m.descriptor) : HeldSound(m, f)
  BY Zenon DEF Loose, Single, FieldLoose
<1> QED
  BY <1>1, <1>2, <1>3, Zenon

\* No field is in two rows of a table.
LEMMA RowsDiffer ==
    ASSUME NEW t \in DOMAIN Descriptors, NEW i \in DOMAIN Descriptors[t].fields,
           NEW j \in DOMAIN Descriptors[t].fields, i # j
    PROVE  Descriptors[t].fields[i] # Descriptors[t].fields[j]
<1> DEFINE f == Descriptors[t].fields[i]
<1>1. f \in RowsOf(t)
  BY DEF RowsOf
<1>2. f.id \in Int
  BY <1>1, RowLaid
<1> QED
  BY <1>2, RowOfNumber, Zenon

\* It is what HeapOwned says of each message.
LEMMA SeparateSingle ==
    ASSUME NEW m, Separate(m)
    PROVE  Single(m)
<1>1. \A f \in RowsOf(m.descriptor) : \E i \in DOMAIN FieldsOf(m) : f = FieldsOf(m)[i]
  BY Zenon DEF RowsOf, FieldsOf
<1>2. Distinct(OwnBlocks(m))
  BY Zenon DEF Separate, Distinct
<1>3. ASSUME NEW i \in DOMAIN FieldsOf(m)
      PROVE  LET f == FieldsOf(m)[i]
             IN  /\ FieldBlocks(m, f) \cap Own(m) = {}
                 /\ \A j \in DOMAIN FieldsOf(m) :
                       i # j => FieldBlocks(m, f) \cap FieldBlocks(m, FieldsOf(m)[j]) = {}
                 /\ Parted(m, f) /\ Backed(m, f)
  BY <1>3, Zenon DEF Separate, Own, Parted, Backed, FieldsOf
<1>4. ASSUME NEW f \in RowsOf(m.descriptor), NEW g \in RowsOf(m.descriptor), f # g
      PROVE  FieldBlocks(m, f) \cap FieldBlocks(m, g) = {}
  <2>1. PICK i \in DOMAIN FieldsOf(m) : f = FieldsOf(m)[i]
    BY <1>1
  <2>2. PICK j \in DOMAIN FieldsOf(m) : g = FieldsOf(m)[j]
    BY <1>1
  <2> QED
    BY <1>3, <1>4, <2>1, <2>2, Zenon
<1>5. ASSUME NEW f \in RowsOf(m.descriptor)
      PROVE  FieldBlocks(m, f) \cap Own(m) = {} /\ Parted(m, f) /\ Backed(m, f)
  BY <1>1, <1>3, Zenon
<1>6. Disjoint(m)
  BY <1>2, <1>4, <1>5, Zenon DEF Disjoint
<1> QED
  BY <1>5, <1>6, Zenon DEF Single

-----------------------------------------------------------------------------
(* Freeing frees the blocks of a message, each once. *)

\* What free does to the message x, when its blocks are live.
FreesOne(free, x) ==
    \A g : Clean(g) /\ Blocks(x) \subseteq g.live => free[x][g] = Without(g, Blocks(x))

\* What lies behind a pointer.
LEMMA PointerFreed ==
    ASSUME NEW h, Clean(h), NEW f, f.type \in Pointer, NEW free, NEW p,
           f.type = "MESSAGE" /\ p # NULL => FreesOne(free, p[1]),
           f.type = "MESSAGE" => f.default_value = NULL,
           ValueBlocks(f, p) \subseteq h.live,
           NEW default, default = IF f.label = "REPEATED" THEN NULL ELSE f.default_value
    PROVE  free_pointer(free, h, f.type, p, default) = Without(h, ValueBlocks(f, p))
<1>1. CASE f.type # "MESSAGE"
  <2>1. ValueBlocks(f, p) = BlockOfText(f, p)
    BY <1>1 DEF ValueBlocks
  <2>2. f.type \in Text
    BY <1>1 DEF Pointer, Text
  <2>3. free_text(h, p, default) = Without(h, BlockOfText(f, p))
    BY <2>1, <2>2, TextFreed
  <2> QED
    BY <1>1, <2>1, <2>3, Zenon DEF free_pointer
<1>2. CASE f.type = "MESSAGE"
  <2>1. default = NULL
    BY <1>2
  <2>2. CASE p = NULL
    <3>1. ValueBlocks(f, p) = {}
      BY <1>2, <2>2, Zenon DEF ValueBlocks
    <3> QED
      BY <1>2, <2>2, <3>1, WithoutNone, Zenon DEF free_pointer
  <2>3. CASE p # NULL
    <3>1. ValueBlocks(f, p) = Blocks(p[1])
      BY <1>2, <2>3, Zenon DEF ValueBlocks
    <3>2. free[p[1]][h] = Without(h, Blocks(p[1]))
      BY <1>2, <2>3, <3>1 DEF FreesOne
    <3> QED
      BY <1>2, <2>1, <2>3, <3>1, <3>2, Zenon DEF free_pointer
  <2> QED
    BY <2>2, <2>3
<1> QED
  BY <1>1, <1>2

\* free may be used for what the field holds.
FreesHeld(free, m, f) ==
    f.type = "MESSAGE" =>
        /\ AllFreed(free, Held(m, f))
        /\ \A p \in ToSet(Held(m, f)) : p # NULL => FreesOne(free, p[1])

\* An array, with its elements.
LEMMA ArrayFrees ==
    ASSUME NEW h, Clean(h), NEW m, NEW f, Laid(f), f.label = "REPEATED", m[f.quantifier_offset] \in Nat,
           Parted(m, f), Backed(m, f), FieldBlocks(m, f) \subseteq h.live,
           NEW free, FreesHeld(free, m, f)
    PROVE  free_array(free, h, f, m[f.quantifier_offset], m[f.offset]) = Without(h, FieldBlocks(m, f))
<1> DEFINE N == m[f.quantifier_offset]
           e == Elements(N, m[f.offset])
           B == [k \in 1..N |-> ValueBlocks(f, e[k])]
           A == UNION {ValueBlocks(f, p) : p \in ToSet(Held(m, f))}
<1>1. Held(m, f) = e /\ N \in Nat /\ DOMAIN e = 1..N
  BY DEF Held, Elements
<1>2. FieldBlocks(m, f) = ArrayBlock(m, f) \cup A
  BY DEF FieldBlocks
<1>3. \A k \in 1..N : B[k] = ValueBlocks(f, e[k])
  OBVIOUS
<1>4. ToSet(Held(m, f)) = {e[k] : k \in 1..N}
  BY <1>1 DEF ToSet
<1>5. Together(N, B, A)
  <2> SUFFICES ASSUME NEW x
               PROVE  x \in A <=> \E k \in 1..N : x \in B[k]
    BY DEF Together
  <2>1. x \in A <=> \E p \in ToSet(Held(m, f)) : x \in ValueBlocks(f, p)
    OBVIOUS
  <2> HIDE DEF A, B, e, N
  <2> QED
    BY <1>3, <1>4, <2>1, Zenon
<1>6. Apiece(N, B) /\ \A k \in 1..N : B[k] \cap ArrayBlock(m, f) = {}
  <2> HIDE DEF e, B, N
  <2> QED
    BY <1>1, <1>3, Zenon DEF Apiece, Parted
<1>7. PICK t : /\ ElementsLoop(free, h, f.type, N, e, t)
               /\ ArrayFreed(free, h, f, N, m[f.offset], t)
  BY <1>1, ArrayRounds, Zenon DEF FreesHeld, Clean
<1> HIDE DEF N, e, B, A
<1>8. CASE m[f.offset] = NULL
  <2>1. N = 0
    BY <1>8, Zenon DEF Backed, N
  <2>2. A = {}
    <3>1. \A k \in 1..N : FALSE
      BY <2>1
    <3> QED
      BY <1>5, <3>1, Zenon DEF Together
  <2>3. FieldBlocks(m, f) = {}
    BY <1>2, <1>8, <2>2 DEF ArrayBlock
  <2>4. free_array(free, h, f, N, m[f.offset]) = h
    BY <1>7, <1>8, Zenon DEF ArrayFreed
  <2> QED
    BY <2>3, <2>4, WithoutNone DEF N
<1>9. CASE m[f.offset] # NULL
  <2> DEFINE blk == m[f.offset][1].blk
  <2>1. ArrayBlock(m, f) = {blk}
    BY <1>9 DEF ArrayBlock
  <2>2. blk \in h.live /\ A \subseteq h.live
    BY <1>2, <2>1, Zenon
  <2>3. blk \notin A
    BY <1>5, <1>6, <2>1, Zenon DEF Together
  <2>4. blk # 0
    BY <2>2 DEF Clean, Heaps
  <2> HIDE DEF blk
  <2> DEFINE g == IF f.type \in Pointer THEN t[N] ELSE h
  <2>5. g = Without(h, A)
    <3>1. CASE f.type \in Pointer
      <4>1. ASSUME NEW k \in 1..N, Clean(t[k - 1]), B[k] \subseteq t[k - 1].live
            PROVE  t[k] = Without(t[k - 1], B[k])
        <5>1. t[k] = free_pointer(free, t[k - 1], f.type, e[k], NULL)
          BY <1>7, Zenon DEF ElementsLoop
        <5>2. e[k] \in ToSet(Held(m, f))
          BY <1>4, Zenon
        <5>3. f.type = "MESSAGE" /\ e[k] # NULL => FreesOne(free, e[k][1])
          BY <5>2, Zenon DEF FreesHeld
        <5>4. f.type = "MESSAGE" => f.default_value = NULL
          BY DEF Laid
        <5>5. ValueBlocks(f, e[k]) \subseteq t[k - 1].live
          BY <1>3, <4>1
        <5>6. free_pointer(free, t[k - 1], f.type, e[k], NULL) = Without(t[k - 1], ValueBlocks(f, e[k]))
          BY <3>1, <4>1, <5>3, <5>4, <5>5, PointerFreed
        <5> QED
          BY <1>3, <5>1, <5>6, Zenon
      <4>2. FreesEach(t, h, N, B)
        BY <1>7, <4>1, Zenon DEF FreesEach, ElementsLoop
      <4>3. t[N] = Without(h, A)
        <5>1. FreesApart(t, h, N, B, A)
          BY <1>1, <1>5, <1>6, <2>2, <4>2, Zenon DEF FreesApart
        <5> QED
          BY <5>1, FreesAll, Zenon
      <4> QED
        BY <3>1, <4>3
    <3>2. CASE f.type \notin Pointer
      <4>1. \A p : ValueBlocks(f, p) = {}
        BY <3>2 DEF Pointer, Text, ValueBlocks, BlockOfText
      <4>2. A = {}
        BY <1>3, <1>5, <4>1, Zenon DEF Together
      <4> QED
        BY <3>2, <4>2, WithoutNone
    <3> QED
      BY <3>1, <3>2
  <2> HIDE DEF g
  <2>6. free_array(free, h, f, N, m[f.offset]) = do_free(g, blk)
    BY <1>7, <1>9, Zenon DEF ArrayFreed, g, blk
  <2>7. Clean(g) /\ g.live = h.live \ A
    BY <2>5, WithoutSome
  <2>8. do_free(g, blk) = Without(g, {blk} \ {0})
    BY <2>2, <2>3, <2>7, FreeOne
  <2>9. {blk} \ {0} = {blk}
    BY <2>4, Zenon
  <2>10. Without(g, {blk}) = Without(h, A \cup {blk})
    BY <2>5, WithoutBoth
  <2>11. A \cup {blk} = FieldBlocks(m, f)
    BY <1>2, <2>1, Zenon
  <2> QED
    BY <2>6, <2>8, <2>9, <2>10, <2>11 DEF N
<1> QED
  BY <1>8, <1>9

\* A member of a message.
LEMMA MemberFrees ==
    ASSUME NEW h, Clean(h), NEW m, NEW f, Laid(f), SlotGood(m, f),
           Parted(m, f), Backed(m, f), FieldBlocks(m, f) \subseteq h.live,
           NEW free, FreesHeld(free, m, f)
    PROVE  free_member(free, h, f, m[f.offset], m[f.quantifier_offset]) = Without(h, FieldBlocks(m, f))
<1> DEFINE member == m[f.offset]
           quantifier == m[f.quantifier_offset]
<1>1. CASE InOneof(f) /\ quantifier # f.id
  <2>1. f.label # "REPEATED" /\ f.label # "REQUIRED"
    BY <1>1 DEF Laid
  <2>2. Held(m, f) = <<>> /\ ArrayBlock(m, f) = {}
    BY <1>1, <2>1, Zenon DEF Held, ArrayBlock
  <2>3. FieldBlocks(m, f) = {}
    BY <2>2 DEF FieldBlocks, ToSet
  <2> QED
    BY <1>1, <2>3, WithoutNone, Zenon DEF free_member
<1>2. CASE ~ (InOneof(f) /\ quantifier # f.id) /\ f.label = "REPEATED"
  <2>1. quantifier \in Nat
    BY <1>2, Zenon DEF SlotGood
  <2>2. free_array(free, h, f, quantifier, member) = Without(h, FieldBlocks(m, f))
    BY <1>2, <2>1, ArrayFrees
  <2> QED
    BY <1>2, <2>2, Zenon DEF free_member
<1>3. CASE ~ (InOneof(f) /\ quantifier # f.id) /\ f.label # "REPEATED"
  <2>1. Held(m, f) = <<member>>
    BY <1>3, Zenon DEF Held
  <2>2. ToSet(<<member>>) = {member}
    BY DEF ToSet
  <2>3. ArrayBlock(m, f) = {}
    BY <1>3, Zenon DEF ArrayBlock
  <2>4. FieldBlocks(m, f) = ValueBlocks(f, member)
    <3> HIDE DEF member
    <3> QED
      BY <2>1, <2>2, <2>3 DEF FieldBlocks
  <2>5. CASE f.type \in Pointer
    <3>1. f.type = "MESSAGE" /\ member # NULL => FreesOne(free, member[1])
      BY <2>1, <2>2, Zenon DEF FreesHeld
    <3>2. f.type = "MESSAGE" => f.default_value = NULL
      BY DEF Laid
    <3>3. free_pointer(free, h, f.type, member, f.default_value) = Without(h, ValueBlocks(f, member))
      BY <1>3, <2>4, <2>5, <3>1, <3>2, PointerFreed
    <3> QED
      BY <1>3, <2>4, <2>5, <3>3, Zenon DEF free_member
  <2>6. CASE f.type \notin Pointer
    <3>1. ValueBlocks(f, member) = {}
      BY <2>6 DEF Pointer, Text, ValueBlocks, BlockOfText
    <3> QED
      BY <1>3, <2>4, <2>6, <3>1, WithoutNone, Zenon DEF free_member
  <2> QED
    BY <2>5, <2>6
<1> QED
  BY <1>1, <1>2, <1>3

\* A message, when those below it are freed so.
LEMMA MessageFrees ==
    ASSUME NEW d \in 0..MaxNesting, NEW m, Whole(d, m), Loose(m), NEW h, Clean(h),
           Blocks(m) \subseteq h.live, NEW free, FreesUnder(free, m),
           \A x \in Submessages(m) : FreesOne(free, x)
    PROVE  message_free(free, m, h) = Without(h, Blocks(m))
<1> DEFINE fields == FieldsOf(m)
           N == Len(fields)
           rows == RowsOf(m.descriptor)
           B == [k \in 1..N |-> FieldBlocks(m, fields[k])]
           A == {b \in Blocks(m) : \E k \in 1..N : b \in B[k]}
<1>1. Headed(m) /\ \A i \in DOMAIN FieldsOf(m) : SlotGood(m, FieldsOf(m)[i])
  BY Zenon DEF Whole, Holds
<1>2. m.descriptor \in DOMAIN Descriptors
  BY <1>1 DEF Headed
<1>3. N \in Nat /\ DOMAIN fields = 1..N
  BY <1>2, FieldRows, Zenon DEF FieldsOf
<1>4. rows = {fields[k] : k \in 1..N}
  <2> HIDE DEF N
  <2> QED
    BY <1>3 DEF RowsOf, FieldsOf
<1>5. \A i, j \in 1..N : i # j => fields[i] # fields[j]
  <2> HIDE DEF N
  <2> QED
    BY <1>2, <1>3, RowsDiffer DEF FieldsOf
<1>6. \A k \in 1..N : B[k] = FieldBlocks(m, fields[k])
  OBVIOUS
<1>7. PICK t : /\ MembersLoop(free, h, m, fields, t)
               /\ message_free(free, m, h) = free_blocks(t[N], OwnBlocks(m))
  BY <1>1, MemberRounds, Zenon DEF Clean
<1> HIDE DEF N, B, rows, fields
<1>8. \A b : b \in Blocks(m) <=> b \in Own(m) \/ \E f \in rows : b \in FieldBlocks(m, f)
  BY BlocksSplit DEF rows
<1>9. Together(N, B, A)
  BY <1>4, <1>6, <1>8, Zenon DEF Together
<1>10. Apiece(N, B)
  <2> SUFFICES ASSUME NEW i \in 1..N, NEW j \in 1..N, i # j
               PROVE  B[i] \cap B[j] = {}
    BY DEF Apiece
  <2>1. fields[i] \in rows /\ fields[j] \in rows /\ fields[i] # fields[j]
    BY <1>4, <1>5, Zenon
  <2> QED
    BY <1>6, <2>1, Zenon DEF Loose, Disjoint, rows
<1>11. A \cap Own(m) = {} /\ A \cup Own(m) = Blocks(m)
  <2>1. \A b : b \in A <=> \E f \in rows : b \in FieldBlocks(m, f)
    BY <1>4, <1>6, <1>9, Zenon DEF Together
  <2>2. \A f \in rows : FieldBlocks(m, f) \cap Own(m) = {}
    BY Zenon DEF Loose, Disjoint, rows
  <2> HIDE DEF A
  <2>3. A \cap Own(m) = {}
    BY <2>1, <2>2, Zenon
  <2>4. \A b : b \in A \cup Own(m) <=> b \in Blocks(m)
    BY <1>8, <2>1, Zenon
  <2> QED
    BY <2>3, <2>4
<1> HIDE DEF A
<1>12. ASSUME NEW k \in 1..N, Clean(t[k - 1]), B[k] \subseteq t[k - 1].live
       PROVE  t[k] = Without(t[k - 1], B[k])
  <2> DEFINE f == fields[k]
  <2>1. f \in rows
    BY <1>4, Zenon
  <2>2. Laid(f) /\ SlotGood(m, f)
    BY <1>1, <1>2, <1>3, <2>1, RowLaid, Zenon DEF rows, fields
  <2>3. Parted(m, f) /\ Backed(m, f)
    BY <2>1, Zenon DEF Loose, FieldLoose, rows
  <2>4. t[k] = free_member(free, t[k - 1], f, m[f.offset], m[f.quantifier_offset])
    BY <1>7, Zenon DEF MembersLoop, N
  <2>5. FreesHeld(free, m, f)
    <3>1. ASSUME f.type = "MESSAGE"
          PROVE  AllFreed(free, Held(m, f))
      BY <1>3, <3>1, UnderFreed, Zenon DEF fields
    <3>2. ASSUME f.type = "MESSAGE", NEW p \in ToSet(Held(m, f)), p # NULL
          PROVE  FreesOne(free, p[1])
      BY <2>1, <3>2, HeldBelow, Zenon DEF rows
    <3> QED
      BY <3>1, <3>2, Zenon DEF FreesHeld
  <2>6. FieldBlocks(m, f) \subseteq t[k - 1].live
    BY <1>6, <1>12
  <2> HIDE DEF f
  <2>7. free_member(free, t[k - 1], f, m[f.offset], m[f.quantifier_offset])
           = Without(t[k - 1], FieldBlocks(m, f))
    BY <1>12, <2>2, <2>3, <2>5, <2>6, MemberFrees
  <2> QED
    BY <1>6, <2>4, <2>7 DEF f
<1>13. FreesEach(t, h, N, B)
  BY <1>7, <1>12, Zenon DEF FreesEach, MembersLoop
<1>14. t[N] = Without(h, A)
  <2>1. FreesApart(t, h, N, B, A)
    BY <1>3, <1>9, <1>10, <1>11, <1>13, Zenon DEF FreesApart
  <2> QED
    BY <2>1, FreesAll, Zenon
<1>15. Clean(t[N]) /\ t[N].live = h.live \ A
  BY <1>14, WithoutSome
<1>16. OwnBlocks(m) \in Seq(Nat) /\ Distinct(OwnBlocks(m))
  BY <1>1, HeaderBlocks DEF Loose, Disjoint
<1>17. Own(m) \subseteq t[N].live
  BY <1>11, <1>15, Zenon
<1>18. free_blocks(t[N], OwnBlocks(m)) = Without(t[N], Own(m))
  BY <1>15, <1>16, <1>17, BlocksFreed DEF Own, Distinct
<1>19. Without(t[N], Own(m)) = Without(h, A \cup Own(m))
  BY <1>14, WithoutBoth
<1> QED
  BY <1>7, <1>11, <1>18, <1>19, Zenon

\* protobuf_c_message_free_unpacked frees the blocks of a message and of all below
\* it, when they are live and each in one place.
LEMMA UnpackedFreed ==
    ASSUME NEW d \in 0..MaxNesting, NEW message, Whole(d, message), Loose(message),
           NEW h, Clean(h), Blocks(message) \subseteq h.live
    PROVE  protobuf_c_message_free_unpacked(message, h) = Without(h, Blocks(message))
<1> DEFINE N == MaxNesting
           D(n) == Nested(message)[MaxNesting - n]
<1>1. N \in Nat
  BY NestingAssumption
<1>2. PICK free : FreesOf(free, message)
  BY FreeLevels, Zenon
<1>3. ASSUME NEW n \in 0..N, NEW m \in D(n), NEW g \in Heaps
      PROVE  free[n][m][g] = message_free(IF n = 0 THEN <<>> ELSE free[n - 1], m, g)
  <2> DEFINE row == [x \in D(n) |-> [a \in Heaps |->
                        message_free(IF n = 0 THEN <<>> ELSE free[n - 1], x, a)]]
  <2>1. free[n] = row
    BY <1>2, Zenon DEF FreesOf
  <2>2. row[m] = [a \in Heaps |-> message_free(IF n = 0 THEN <<>> ELSE free[n - 1], m, a)]
    BY Zenon
  <2> QED
    BY <2>1, <2>2, Zenon
<1>4. \A n \in 0..N : \A m \in D(n) : n # 0 => \A x \in Submessages(m) : x \in D(n - 1)
  <2>1. ASSUME NEW n \in 0..N, n # 0
        PROVE  n \in 1..N
    BY <1>1, <2>1
  <2> QED
    BY <2>1, LevelBelow, Zenon
<1> HIDE DEF D
<1> DEFINE Keeps(n, m) == \A g \in Heaps : Kept(g, free[n][m][g])
           Frees(n) == \A m \in D(n) : \A e \in 0..n : Whole(e, m) =>
                          Keeps(n, m) /\ (Loose(m) => FreesOne(free[n], m))
           S == {n \in 0..N : Frees(n)}
<1>5. ASSUME NEW n \in 0..N, n = 0 \/ Frees(n - 1)
      PROVE  Frees(n)
  <2> SUFFICES ASSUME NEW m \in D(n), NEW e \in 0..n, Whole(e, m)
               PROVE  Keeps(n, m) /\ (Loose(m) => FreesOne(free[n], m))
    BY Zenon
  <2> DEFINE below == IF n = 0 THEN <<>> ELSE free[n - 1]
  <2>1. e \in 0..N /\ (n = 0 => e = 0) /\ (e # 0 => e - 1 \in 0..(n - 1))
    BY <1>1
  <2>2. ASSUME NEW x \in Submessages(m)
        PROVE  /\ n # 0 /\ x \in D(n - 1) /\ e - 1 \in 0..(n - 1) /\ Whole(e - 1, x)
               /\ \A a \in Heaps : Kept(a, below[x][a])
               /\ Loose(x) => FreesOne(below, x)
    <3>1. e # 0 /\ Whole(e - 1, x)
      BY <2>1, WholeBelow, Zenon
    <3>2. n # 0 /\ x \in D(n - 1)
      BY <1>4, <2>1, <3>1, Zenon
    <3> QED
      BY <1>5, <2>1, <3>1, <3>2, Zenon
  <2>3. FreesUnder(below, m)
    BY <2>2, Zenon DEF FreesUnder
  <2>4. Headed(m) /\ \A i \in DOMAIN FieldsOf(m) : SlotGood(m, FieldsOf(m)[i])
    BY Zenon DEF Whole, Holds
  <2>5. \A g \in Heaps : free[n][m][g] = message_free(below, m, g)
    BY <1>3, Zenon
  <2> HIDE DEF below
  <2>6. Keeps(n, m)
    BY <2>3, <2>4, <2>5, MessageKept, Zenon
  <2>7. ASSUME Loose(m), NEW g, Clean(g), Blocks(m) \subseteq g.live
        PROVE  free[n][m][g] = Without(g, Blocks(m))
    <3>1. ASSUME NEW x \in Submessages(m)
          PROVE  FreesOne(below, x)
      <4>1. PICK f \in RowsOf(m.descriptor) :
               f.type = "MESSAGE" /\ \E p \in ToSet(Held(m, f)) : p # NULL /\ p[1] = x
        BY BelowHeld
      <4>2. Sound(x)
        BY <2>7, <4>1 DEF Loose, FieldLoose, HeldSound
      <4>3. e - 1 \in 0..MaxNesting /\ Whole(e - 1, x)
        BY <1>1, <2>2
      <4>4. Loose(x)
        BY <4>2, <4>3, SoundSplit, Zenon
      <4> QED
        BY <2>2, <4>4, Zenon
    <3>2. message_free(below, m, g) = Without(g, Blocks(m))
      BY <2>1, <2>3, <2>7, <3>1, MessageFrees
    <3> QED
      BY <2>5, <2>7, <3>2 DEF Clean
  <2> QED
    BY <2>6, <2>7, Zenon DEF FreesOne
<1> HIDE DEF Frees
<1>6. 0 \in S /\ \A n \in 1..N : n - 1 \in S => n \in S
  BY <1>1, <1>5
<1> HIDE DEF S
<1>7. N \in S
  BY <1>1, <1>6, Along
<1>8. Frees(N)
  BY <1>7 DEF S
<1>9. message \in D(N)
  BY LevelTop DEF D
<1>10. FreesOne(free[N], message)
  BY <1>8, <1>9, Zenon DEF Frees
<1> QED
  BY <1>2, <1>10, Zenon DEF FreesOf, FreesOne

\* Freeing what was unpacked gives back every block of the heap, each once: when
\* the heap is the message's, the allocator has nothing live afterwards, and
\* nothing was freed that was not (protobuf_c_message_free_unpacked).
THEOREM FreeGivesAllBack ==
    Spec => [][HeapOwned /\ FreeUnpacked => heap' = Heap(0)]_vars
<1>1. ASSUME ReceiveInv, HeapOwned, FreeUnpacked
      PROVE  heap' = Heap(0)
  <2> DEFINE h == IF got = NULL THEN heap ELSE protobuf_c_message_free_unpacked(got[1], heap)
  <2>1. stage = "unpacked" /\ heap' = [h EXCEPT !.n = 0, !.fail = 0]
    BY <1>1 DEF FreeUnpacked
  <2>2. Clean(heap) /\ (got # NULL => Whole(MaxNesting, got[1]))
    BY <1>1, <2>1 DEF ReceiveInv, HeapOwned, Clean
  <2>3. Clean(h) /\ h.live = {}
    <3>1. CASE got = NULL
      BY <1>1, <2>2, <3>1 DEF HeapOwned
    <3>2. CASE got # NULL
      <4> DEFINE m == got[1]
      <4>1. MaxNesting \in 0..MaxNesting /\ Whole(MaxNesting, m)
        BY <2>2, <3>2, NestingAssumption
      <4>2. heap.live = Blocks(m) /\ \A x \in Within(m) : Separate(x)
        BY <1>1, <3>2, Zenon DEF HeapOwned
      <4>3. Sound(m)
        BY <4>2, SeparateSingle, Zenon DEF Sound
      <4> HIDE DEF m
      <4>4. Loose(m)
        BY <4>1, <4>3, SoundSplit, Zenon
      <4>5. protobuf_c_message_free_unpacked(m, heap) = Without(heap, Blocks(m))
        BY <2>2, <4>1, <4>2, <4>4, UnpackedFreed
      <4>6. h = Without(heap, heap.live)
        BY <3>2, <4>2, <4>5, Zenon DEF m
      <4>7. Clean(Without(heap, heap.live)) /\ Without(heap, heap.live).live = heap.live \ heap.live
        BY <2>2, WithoutSome
      <4> QED
        BY <4>6, <4>7
    <3> QED
      BY <3>1, <3>2
  <2> HIDE DEF h
  <2> QED
    BY <2>1, <2>3 DEF Clean, Heaps, Heap
<1>2. ReceiveInv /\ [Next]_vars => [HeapOwned /\ FreeUnpacked => heap' = Heap(0)]_vars
  BY <1>1
<1> QED
  BY <1>2, ReceiveStarts, ReceiveSteps, PTL DEF Spec

\* Between unpacking and freeing, nothing else loses a block or hands one to two
\* owners: only protobuf_c_message_unpack could.
THEOREM OnlyUnpackCouldLose ==
    Spec => [][HeapOwned /\ ~ (\E type, fail : Unpack(type, fail)) => HeapOwned']_vars
<1>1. ASSUME HeapOwned, UNCHANGED <<heap, got>>
      PROVE  HeapOwned'
  BY <1>1 DEF HeapOwned
<1>2. ASSUME heap' = Heap(0), got' = NULL
      PROVE  HeapOwned'
  BY <1>2 DEF HeapOwned, Heap
<1>3. ASSUME Next, ~ (\E type, fail : Unpack(type, fail)), ~ FreeUnpacked
      PROVE  UNCHANGED <<heap, got>>
  BY <1>3, Zenon DEF Next, PackMessage, PackToBuffer, ClearBuffer, Receive
<1>4. FreeUnpacked => got' = NULL
  BY Zenon DEF FreeUnpacked
<1>5. [Next]_vars /\ [HeapOwned /\ FreeUnpacked => heap' = Heap(0)]_vars
         => [HeapOwned /\ ~ (\E type, fail : Unpack(type, fail)) => HeapOwned']_vars
  <2> SUFFICES ASSUME Next, HeapOwned, ~ (\E type, fail : Unpack(type, fail)),
                      HeapOwned /\ FreeUnpacked => heap' = Heap(0), ~ UNCHANGED vars
               PROVE  HeapOwned'
    OBVIOUS
  <2> QED
    BY <1>1, <1>2, <1>3, <1>4, Zenon
<1> QED
  BY <1>5, FreeGivesAllBack, PTL DEF Spec
=============================================================================
