---------------------------- MODULE MemoryProofs ----------------------------
(***************************************************************************)
(* Proofs about Memory for every set of guests and addresses and every     *)
(* length.  The invariant is an exact account of each heap: the live       *)
(* buffers are those the current call holds, each once and with its size,  *)
(* and those that a trap took.                                             *)
(***************************************************************************)
EXTENDS Memory, TLAPS

-----------------------------------------------------------------------------
(* The inductive invariant. *)

\* The addresses of the buffers that the call holds.
Ptrs == {bufs[i].ptr : i \in DOMAIN bufs}
LiveIn(g) == {a \in Addrs : heap[g][a] # 0}

\* What the call holds is there while it runs and gone when it is over.
HandsEmpty ==
  /\ at = "out" => bufs = << >>
  /\ packed # Null <=> at = "packed"

\* A buffer that a trap took is not held by anybody, and every live buffer of the guest
\* that is called is one of these or held.
CalledHeapExact ==
  /\ LiveIn(guest) = lost[guest] \cup Held
  /\ lost[guest] \cap Held = {}

OtherHeapsExact == \A g \in Guests \ {guest} : LiveIn(g) = lost[g]

MemoryInv ==
  /\ MemoryTypeOK
  /\ HandsEmpty
  /\ HeldIsLive
  /\ CalledHeapExact
  /\ OtherHeapsExact
  /\ NoFault

\* The sizes of buffers are numbers, and a buffer for the guest has its tag at least.
LEMMA SizeType ==
  ASSUME NEW len \in Nat
  PROVE  Size(len) \in Nat
  BY DEF Size

LEMMA NullIsNoAddress == Null.ptr \notin Addrs /\ Null \notin Buffers
  BY MemoryAssumption DEF MemoryAssumption, Null, Buffers

\* Held with nothing packed, and with something.
LEMMA HeldSplit ==
  ASSUME MemoryTypeOK
  PROVE  /\ packed = Null => Held = Ptrs
         /\ packed # Null => packed \in Buffers /\ Held = Ptrs \cup {packed.ptr}
         /\ Ptrs \subseteq Addrs /\ Held \subseteq Addrs
         /\ \A i \in DOMAIN bufs : bufs[i] \in Buffers /\ bufs[i].ptr \in Ptrs
         /\ \A a \in Ptrs : \E i \in DOMAIN bufs : a = bufs[i].ptr
<1>1. \A i \in DOMAIN bufs : bufs[i] \in Buffers /\ bufs[i].ptr \in Addrs
  <2>1. bufs \in Seq(Buffers) /\ DOMAIN bufs = 1..Len(bufs)
    BY DEF MemoryTypeOK
  <2>2. \A i \in DOMAIN bufs : bufs[i] \in Buffers
    BY <2>1
  <2> QED
    BY <2>2 DEF Buffers
<1>2. Ptrs \subseteq Addrs
  BY <1>1 DEF Ptrs
<1>3. packed # Null => packed \in Buffers /\ packed.ptr \in Addrs
  BY DEF MemoryTypeOK, Buffers
<1> QED
  BY <1>1, <1>2, <1>3, NullIsNoAddress DEF Held, Ptrs

LEMMA MInit == MemoryInit => MemoryInv
<1> SUFFICES ASSUME MemoryInit PROVE MemoryInv
  OBVIOUS
<1>1. /\ heap \in [Guests -> [Addrs -> Nat]] /\ \A g \in Guests : LiveIn(g) = {}
      /\ lost \in [Guests -> SUBSET Addrs] /\ \A g \in Guests : lost[g] = {}
  BY DEF MemoryInit, Empty, LiveIn
<1>2. MemoryTypeOK
  <2>1. want \in Seq(Nat) /\ bufs \in Seq(Buffers)
    BY DEF MemoryInit
  <2> QED
    BY <1>1, <2>1 DEF MemoryInit, MemoryTypeOK, Places
<1>3. Held = {} /\ guest \in Guests
  BY <1>2, HeldSplit DEF Ptrs, MemoryInit
<1> QED
  BY <1>1, <1>2, <1>3
     DEF MemoryInit, MemoryInv, HandsEmpty, HeldIsLive, CalledHeapExact, OtherHeapsExact,
         NoFault

-----------------------------------------------------------------------------
(* Allocating and freeing. *)

\* A new buffer is added to the heap of the guest that is called; all else there stays.
LEMMA AllocatedHeap ==
  ASSUME MemoryInv, NEW a \in Addrs, NEW size \in Nat, Allocates(a, size)
  PROVE  /\ heap' \in [Guests -> [Addrs -> Nat]]
         /\ a \notin Held /\ a \notin lost[guest] /\ size > 0
         /\ heap'[guest][a] = size
         /\ \A b \in Addrs \ {a} : heap'[guest][b] = heap[guest][b]
         /\ \A g \in Guests \ {guest} : heap'[g] = heap[g]
         /\ {b \in Addrs : heap'[guest][b] # 0} = LiveIn(guest) \cup {a}
<1>1. heap \in [Guests -> [Addrs -> Nat]] /\ guest \in Guests
  BY DEF MemoryInv, MemoryTypeOK
<1>2. heap[guest][a] = 0 /\ heap' = [heap EXCEPT ![guest][a] = size] /\ size > 0
  BY DEF Allocates
<1>3. a \notin LiveIn(guest)
  BY <1>2 DEF LiveIn
<1>4. a \notin Held /\ a \notin lost[guest]
  BY <1>3 DEF MemoryInv, CalledHeapExact
<1>5. /\ heap' \in [Guests -> [Addrs -> Nat]]
      /\ heap'[guest][a] = size
      /\ \A b \in Addrs \ {a} : heap'[guest][b] = heap[guest][b]
      /\ \A g \in Guests \ {guest} : heap'[g] = heap[g]
  BY <1>1, <1>2
<1>6. {b \in Addrs : heap'[guest][b] # 0} = LiveIn(guest) \cup {a}
  BY <1>1, <1>2, <1>5 DEF LiveIn
<1> QED
  BY <1>2, <1>4, <1>5, <1>6

\* Freeing what the call holds frees no more than that, and is defined.
LEMMA FreedHeap ==
  ASSUME MemoryInv, packed = Null, FreeAll
  PROVE  /\ heap' \in [Guests -> [Addrs -> Nat]] /\ bufs' = << >> /\ fault' = FALSE
         /\ \A g \in Guests \ {guest} : heap'[g] = heap[g]
         /\ {b \in Addrs : heap'[guest][b] # 0} = lost[guest]
<1>1. heap \in [Guests -> [Addrs -> Nat]] /\ guest \in Guests
  BY DEF MemoryInv, MemoryTypeOK
<1>2. /\ heap' = [heap EXCEPT ![guest] =
                    [a \in Addrs |-> IF \E i \in DOMAIN bufs :
                                          bufs[i].ptr = a /\ Size(bufs[i].len) > 0
                                     THEN 0 ELSE heap[guest][a]]]
      /\ fault' = (fault \/ \E i \in DOMAIN bufs :
                       Undefined(heap[guest], bufs[i].ptr, Size(bufs[i].len)))
      /\ bufs' = << >>
  BY DEF FreeAll, Free
<1>3. \A i \in DOMAIN bufs : /\ heap[guest][bufs[i].ptr] = Size(bufs[i].len)
                             /\ bufs[i].ptr \in Held /\ bufs[i].ptr \in Addrs
                             /\ Size(bufs[i].len) \in Nat
  BY HeldSplit, SizeType DEF MemoryInv, HeldIsLive, Buffers
<1>4. fault' = FALSE
  BY <1>2, <1>3 DEF MemoryInv, NoFault, Undefined
<1>5. \A i \in DOMAIN bufs : Size(bufs[i].len) > 0
  BY <1>3 DEF MemoryInv, CalledHeapExact, LiveIn
<1>6. \A a \in Addrs : (\E i \in DOMAIN bufs : bufs[i].ptr = a /\ Size(bufs[i].len) > 0)
                         <=> a \in Held
  BY <1>3, <1>5, HeldSplit DEF MemoryInv
<1>7. \A a \in Addrs : heap'[guest][a] = IF a \in Held THEN 0 ELSE heap[guest][a]
  BY <1>1, <1>2, <1>6
<1>8. {b \in Addrs : heap'[guest][b] # 0} = lost[guest]
  BY <1>7 DEF MemoryInv, CalledHeapExact, LiveIn
<1>9. heap' \in [Guests -> [Addrs -> Nat]] /\ \A g \in Guests \ {guest} : heap'[g] = heap[g]
  BY <1>1, <1>2
<1> QED
  BY <1>2, <1>4, <1>8, <1>9

-----------------------------------------------------------------------------
(* The steps. *)

\* A step that moves the call on and touches no buffer.
LEMMA SameHands ==
  ASSUME MemoryInv, MemoryTypeOK', HandsEmpty',
         UNCHANGED <<heap, guest, kind, bufs, packed, lost, fault>>
  PROVE  MemoryInv'
<1>1. HeldIsLive'
  BY DEF MemoryInv, HeldIsLive, Size
<1>2. CalledHeapExact' /\ OtherHeapsExact'
  BY DEF MemoryInv, CalledHeapExact, OtherHeapsExact, Held, LiveIn
<1> QED
  BY <1>1, <1>2 DEF MemoryInv, NoFault

\* A step after which no call holds a buffer.
LEMMA NoHands ==
  ASSUME MemoryTypeOK', at' # "packed", bufs' = << >>, packed' = Null, fault' = FALSE,
         \A g \in Guests : {b \in Addrs : heap'[g][b] # 0} = lost'[g]
  PROVE  MemoryInv'
<1>1. Ptrs' = {}
  BY DEF Ptrs
<1>2. Held' = {}
  BY <1>1 DEF Held, Ptrs
<1>3. guest' \in Guests
  BY DEF MemoryTypeOK
<1> QED
  BY <1>2, <1>3
     DEF MemoryInv, HandsEmpty, HeldIsLive, CalledHeapExact, OtherHeapsExact, NoFault, LiveIn

\* Between calls every heap holds what the traps took, and nothing else.
LEMMA OutIsExact ==
  ASSUME MemoryInv, at = "out"
  PROVE  /\ bufs = << >> /\ packed = Null /\ fault = FALSE
         /\ \A g \in Guests : LiveIn(g) = lost[g]
<1>1. bufs = << >> /\ packed = Null
  BY DEF MemoryInv, HandsEmpty
<1>2. Held = {}
  BY <1>1 DEF Held
<1> QED
  BY <1>1, <1>2
     DEF MemoryInv, MemoryTypeOK, CalledHeapExact, OtherHeapsExact, NoFault

LEMMA LensType ==
  ASSUME NEW k \in Kinds, NEW lens \in Lens(k)
  PROVE  lens \in Seq(Nat)
<1>1. PICK n \in {1, 2} : lens \in [1..n -> 0..MaxLen]
  BY DEF Lens
<1>2. 0..MaxLen \subseteq Nat
  BY MemoryAssumption DEF MemoryAssumption
<1>3. lens \in [1..n -> Nat] /\ n \in Nat
  BY <1>1, <1>2
<1> QED
  BY <1>3

LEMMA BeginCallStep ==
  ASSUME MemoryInv, NEW k \in Kinds, NEW g \in Guests, NEW lens \in Seq(Nat),
         BeginCall(k, g, lens)
  PROVE  MemoryInv'
<1>1. MemoryTypeOK'
  BY DEF MemoryInv, MemoryTypeOK, BeginCall, Places
<1>2. \A h \in Guests : {b \in Addrs : heap'[h][b] # 0} = lost'[h]
  BY OutIsExact DEF BeginCall, LiveIn
<1> QED
  BY <1>1, <1>2, OutIsExact, NoHands DEF BeginCall

LEMMA AllocNextStep ==
  ASSUME MemoryInv, NEW a \in Addrs, AllocNext(a)
  PROVE  MemoryInv'
<1> DEFINE new == [ptr |-> a, len |-> Head(want)]
<1>1. /\ want \in Seq(Nat) /\ want # << >> /\ Head(want) \in Nat /\ Tail(want) \in Seq(Nat)
      /\ bufs \in Seq(Buffers) /\ new \in Buffers /\ bufs' = Append(bufs, new)
      /\ DOMAIN bufs = 1..Len(bufs) /\ Len(bufs) \in Nat
  BY DEF MemoryInv, MemoryTypeOK, AllocNext, Buffers
<1>2. Size(Head(want)) \in Nat /\ Allocates(a, Size(Head(want)))
  BY <1>1, SizeType DEF AllocNext
<1>3. /\ heap' \in [Guests -> [Addrs -> Nat]]
      /\ a \notin Held /\ a \notin lost[guest]
      /\ heap'[guest][a] = Size(Head(want))
      /\ \A b \in Addrs \ {a} : heap'[guest][b] = heap[guest][b]
      /\ \A g \in Guests \ {guest} : heap'[g] = heap[g]
      /\ {b \in Addrs : heap'[guest][b] # 0} = LiveIn(guest) \cup {a}
  BY <1>2, AllocatedHeap
<1>4. packed = Null /\ UNCHANGED <<packed, guest, kind, lost, fault>>
  BY DEF MemoryInv, HandsEmpty, AllocNext
<1>5. MemoryTypeOK'
  <2>1. bufs' \in Seq(Buffers) /\ want' \in Seq(Nat) /\ at' \in Places
    BY <1>1 DEF AllocNext, Places
  <2> QED
    BY <1>3, <2>1 DEF MemoryInv, MemoryTypeOK, AllocNext
<1>6. /\ DOMAIN bufs' = (DOMAIN bufs) \cup {Len(bufs) + 1}
      /\ \A i \in DOMAIN bufs : bufs'[i] = bufs[i]
      /\ bufs'[Len(bufs) + 1] = new
  BY <1>1
<1>7. \A i \in DOMAIN bufs : /\ bufs[i].ptr \in Held /\ bufs[i].ptr \in Addrs
                             /\ bufs[i].ptr # a
  BY <1>3, <1>4, HeldSplit DEF MemoryInv
<1>8. Held = Ptrs /\ Held' = Held \cup {a}
  <2>1. Ptrs' = Ptrs \cup {a}
    BY <1>6 DEF Ptrs
  <2> QED
    BY <1>4, <1>5, <2>1, HeldSplit DEF MemoryInv, Held, Ptrs
<1>9. HeldIsLive'
  <2>1. \A i, j \in DOMAIN bufs' : i # j => bufs'[i].ptr # bufs'[j].ptr
    BY <1>6, <1>7 DEF MemoryInv, HeldIsLive
  <2>2. \A i \in DOMAIN bufs' : bufs'[i].ptr # packed'.ptr
    BY <1>4, <1>6, <1>7, NullIsNoAddress
  <2>3. \A i \in DOMAIN bufs' : heap'[guest][bufs'[i].ptr] = Size(bufs'[i].len)
    <3>1. new.ptr = a /\ Size(new.len) = Size(Head(want))
      OBVIOUS
    <3>2. heap'[guest][new.ptr] = Size(new.len)
      BY <1>3, <3>1
    <3>3. \A i \in DOMAIN bufs : heap'[guest][bufs[i].ptr] = Size(bufs[i].len)
      BY <1>3, <1>7 DEF MemoryInv, HeldIsLive
    <3> QED
      BY <1>6, <3>2, <3>3
  <2>4. packed' = Null /\ kind' = kind /\ guest' = guest
    BY <1>4
  <2> QED
    BY <2>1, <2>2, <2>3, <2>4 DEF HeldIsLive, Size
<1>10. CalledHeapExact' /\ OtherHeapsExact'
  BY <1>3, <1>4, <1>8 DEF MemoryInv, CalledHeapExact, OtherHeapsExact, LiveIn
<1> QED
  BY <1>4, <1>5, <1>9, <1>10 DEF MemoryInv, HandsEmpty, NoFault, AllocNext

LEMMA AllocFailsStep ==
  ASSUME MemoryInv, AllocFails
  PROVE  MemoryInv'
<1>1. packed = Null /\ FreeAll
  BY DEF AllocFails, MemoryInv, HandsEmpty
<1>2. MemoryTypeOK'
  <2>1. /\ heap' \in [Guests -> [Addrs -> Nat]] /\ fault' \in BOOLEAN
        /\ bufs' \in Seq(Buffers)
    BY <1>1, FreedHeap
  <2>2. /\ want' \in Seq(Nat) /\ at' \in Places /\ kind' \in Kinds \cup {NoCall}
        /\ result' = "error" /\ UNCHANGED <<open, guest, packed, lost>>
    BY DEF AllocFails, Places
  <2> QED
    BY <2>1, <2>2 DEF MemoryInv, MemoryTypeOK
<1>3. \A g \in Guests : {b \in Addrs : heap'[g][b] # 0} = lost'[g]
  BY <1>1, FreedHeap DEF AllocFails, MemoryInv, OtherHeapsExact, LiveIn
<1> QED
  BY <1>1, <1>2, <1>3, FreedHeap, NoHands DEF AllocFails

LEMMA MovesOn ==
  ASSUME MemoryInv, SyncRPC \/ SyncFails \/ ExportReturns
  PROVE  MemoryInv'
<1>1. UNCHANGED <<open, heap, guest, kind, want, bufs, packed, lost, fault>>
  BY DEF SyncRPC, SyncFails, ExportReturns
<1>2. at' \in {"sync", "guest", "free"} /\ at \in {"sync", "guest"}
      /\ result' \in {"ok", "error", "trapped"}
  BY DEF SyncRPC, SyncFails, ExportReturns, MemoryInv, MemoryTypeOK
<1>3. MemoryTypeOK' /\ HandsEmpty'
  BY <1>1, <1>2 DEF MemoryInv, MemoryTypeOK, HandsEmpty, Places
<1> QED
  BY <1>1, <1>3, SameHands

LEMMA SyncAnswersStep ==
  ASSUME MemoryInv, NEW a \in Addrs, NEW len \in Nat, SyncAnswers(a, len)
  PROVE  MemoryInv'
<1> DEFINE new == [ptr |-> a, len |-> 1 + len]
<1>1. new \in Buffers /\ new # Null /\ packed' = new /\ packed = Null /\ 1 + len \in Nat
  BY NullIsNoAddress DEF SyncAnswers, Buffers, MemoryInv, HandsEmpty
<1>2. /\ heap' \in [Guests -> [Addrs -> Nat]]
      /\ a \notin Held /\ a \notin lost[guest]
      /\ heap'[guest][a] = 1 + len
      /\ \A b \in Addrs \ {a} : heap'[guest][b] = heap[guest][b]
      /\ \A g \in Guests \ {guest} : heap'[g] = heap[g]
      /\ {b \in Addrs : heap'[guest][b] # 0} = LiveIn(guest) \cup {a}
  BY <1>1, AllocatedHeap DEF SyncAnswers
<1>3. UNCHANGED <<open, kind, guest, want, bufs, result, lost, fault>> /\ at' = "packed"
  BY DEF SyncAnswers
<1>4. MemoryTypeOK'
  BY <1>1, <1>2, <1>3 DEF MemoryInv, MemoryTypeOK, Places
<1>5. \A i \in DOMAIN bufs : /\ bufs[i].ptr \in Held /\ bufs[i].ptr \in Addrs
                             /\ bufs[i].ptr # a
  BY <1>1, <1>2, HeldSplit DEF MemoryInv
<1>6. Held' = Held \cup {a}
  <2>1. Held = Ptrs /\ Ptrs' = Ptrs
    BY <1>1, <1>3, HeldSplit DEF MemoryInv, Ptrs
  <2>2. a # Null.ptr
    BY NullIsNoAddress
  <2> QED
    BY <1>1, <2>1, <2>2 DEF Held, Ptrs
<1>7. HeldIsLive'
  <2>1. \A i \in DOMAIN bufs : heap'[guest][bufs[i].ptr] = Size(bufs[i].len)
    BY <1>2, <1>5 DEF MemoryInv, HeldIsLive
  <2>2. /\ \A i, j \in DOMAIN bufs : i # j => bufs[i].ptr # bufs[j].ptr
        /\ \A i \in DOMAIN bufs : bufs[i].ptr # packed'.ptr
        /\ heap'[guest][packed'.ptr] = packed'.len
    BY <1>1, <1>2, <1>5 DEF MemoryInv, HeldIsLive
  <2>3. bufs' = bufs /\ kind' = kind /\ guest' = guest
    BY <1>3
  <2> QED
    BY <2>1, <2>2, <2>3 DEF HeldIsLive, Size
<1>8. CalledHeapExact' /\ OtherHeapsExact'
  BY <1>2, <1>3, <1>6 DEF MemoryInv, CalledHeapExact, OtherHeapsExact, LiveIn
<1> QED
  BY <1>1, <1>3, <1>4, <1>7, <1>8 DEF MemoryInv, HandsEmpty, NoFault

LEMMA GuestTakesStep ==
  ASSUME MemoryInv, GuestTakes
  PROVE  MemoryInv'
<1> DEFINE a == packed.ptr
<1>1. /\ packed # Null /\ packed \in Buffers /\ a \in Addrs /\ packed.len \in Nat
      /\ Held = Ptrs \cup {a} /\ heap[guest][a] = packed.len
  BY HeldSplit DEF GuestTakes, MemoryInv, HandsEmpty, HeldIsLive, Buffers
<1>2. packed.len > 0
  BY <1>1 DEF MemoryInv, CalledHeapExact, LiveIn
<1>3. heap \in [Guests -> [Addrs -> Nat]] /\ guest \in Guests
  BY DEF MemoryInv, MemoryTypeOK
<1>4. heap' = [heap EXCEPT ![guest] = [heap[guest] EXCEPT ![a] = 0]] /\ fault' = FALSE
  <2>1. /\ heap' = [heap EXCEPT ![guest] = Without(heap[guest], a, packed.len)]
        /\ fault' = (fault \/ Undefined(heap[guest], a, packed.len))
    BY DEF GuestTakes
  <2>2. Without(heap[guest], a, packed.len) = [heap[guest] EXCEPT ![a] = 0]
    BY <1>2 DEF Without
  <2>3. ~Undefined(heap[guest], a, packed.len) /\ fault = FALSE
    BY <1>1 DEF Undefined, MemoryInv, MemoryTypeOK, NoFault
  <2> QED
    BY <2>1, <2>2, <2>3
<1>5. /\ heap' \in [Guests -> [Addrs -> Nat]] /\ heap'[guest][a] = 0
      /\ \A b \in Addrs \ {a} : heap'[guest][b] = heap[guest][b]
      /\ \A g \in Guests \ {guest} : heap'[g] = heap[g]
  BY <1>1, <1>3, <1>4
<1>6. /\ UNCHANGED <<open, kind, guest, want, bufs, result, lost>>
      /\ packed' = Null /\ at' = "guest"
  BY DEF GuestTakes
<1>7. MemoryTypeOK'
  BY <1>4, <1>5, <1>6 DEF MemoryInv, MemoryTypeOK, Places
<1>8. \A i \in DOMAIN bufs : bufs[i].ptr \in Addrs /\ bufs[i].ptr # a
  BY HeldSplit DEF MemoryInv, HeldIsLive
<1>9. Held' = Held \ {a}
  <2>1. Ptrs' = Ptrs /\ a \notin Ptrs
    BY <1>6, <1>8 DEF Ptrs
  <2>2. Held' = Ptrs'
    BY <1>6, <1>7, HeldSplit DEF Held, Ptrs
  <2> QED
    BY <1>1, <2>1, <2>2
<1>10. HeldIsLive'
  <2>1. \A i \in DOMAIN bufs : /\ heap'[guest][bufs[i].ptr] = Size(bufs[i].len)
                               /\ bufs[i].ptr # Null.ptr
    BY <1>5, <1>8, NullIsNoAddress DEF MemoryInv, HeldIsLive
  <2>2. bufs' = bufs /\ kind' = kind /\ guest' = guest /\ packed' = Null
    BY <1>6
  <2>3. \A i, j \in DOMAIN bufs : i # j => bufs[i].ptr # bufs[j].ptr
    BY DEF MemoryInv, HeldIsLive
  <2> QED
    BY <2>1, <2>2, <2>3 DEF HeldIsLive, Size
<1>11. CalledHeapExact' /\ OtherHeapsExact'
  BY <1>1, <1>5, <1>6, <1>9 DEF MemoryInv, CalledHeapExact, OtherHeapsExact, LiveIn
<1> QED
  BY <1>4, <1>6, <1>7, <1>10, <1>11 DEF MemoryInv, HandsEmpty, NoFault

LEMMA CompileReturnsStep ==
  ASSUME MemoryInv, NEW a \in Addrs, NEW len \in Nat, CompileReturns(a, len)
  PROVE  MemoryInv'
<1> DEFINE new == [ptr |-> a, len |-> len]
<1>1. /\ new \in Buffers /\ bufs' = Append(bufs, new) /\ len > 0
      /\ DOMAIN bufs = 1..Len(bufs) /\ Len(bufs) \in Nat /\ bufs \in Seq(Buffers)
  BY DEF MemoryInv, MemoryTypeOK, CompileReturns, Buffers
<1>2. Allocates(a, len) /\ Size(len) = len
  BY <1>1 DEF CompileReturns, Size
<1>3. /\ heap' \in [Guests -> [Addrs -> Nat]]
      /\ a \notin Held /\ a \notin lost[guest]
      /\ heap'[guest][a] = len
      /\ \A b \in Addrs \ {a} : heap'[guest][b] = heap[guest][b]
      /\ \A g \in Guests \ {guest} : heap'[g] = heap[g]
      /\ {b \in Addrs : heap'[guest][b] # 0} = LiveIn(guest) \cup {a}
  BY <1>2, AllocatedHeap
<1>4. packed = Null /\ UNCHANGED <<open, want, packed, guest, kind, lost, fault>>
  BY DEF MemoryInv, HandsEmpty, CompileReturns
<1>5. MemoryTypeOK'
  <2>1. bufs' \in Seq(Buffers) /\ at' \in Places /\ result' = "ok"
    BY <1>1 DEF CompileReturns, Places
  <2> QED
    BY <1>3, <1>4, <2>1 DEF MemoryInv, MemoryTypeOK
<1>6. /\ DOMAIN bufs' = (DOMAIN bufs) \cup {Len(bufs) + 1}
      /\ \A i \in DOMAIN bufs : bufs'[i] = bufs[i]
      /\ bufs'[Len(bufs) + 1] = new
  BY <1>1
<1>7. \A i \in DOMAIN bufs : /\ bufs[i].ptr \in Held /\ bufs[i].ptr \in Addrs
                             /\ bufs[i].ptr # a
  BY <1>3, <1>4, HeldSplit DEF MemoryInv
<1>8. Held' = Held \cup {a}
  <2>1. Ptrs' = Ptrs \cup {a}
    BY <1>6 DEF Ptrs
  <2> QED
    BY <1>4, <1>5, <2>1, HeldSplit DEF MemoryInv, Held, Ptrs
<1>9. HeldIsLive'
  <2>1. \A i, j \in DOMAIN bufs' : i # j => bufs'[i].ptr # bufs'[j].ptr
    BY <1>6, <1>7 DEF MemoryInv, HeldIsLive
  <2>2. \A i \in DOMAIN bufs' : bufs'[i].ptr # packed'.ptr
    BY <1>4, <1>6, <1>7, NullIsNoAddress
  <2>3. \A i \in DOMAIN bufs' : heap'[guest][bufs'[i].ptr] = Size(bufs'[i].len)
    BY <1>2, <1>3, <1>6, <1>7 DEF MemoryInv, HeldIsLive
  <2>4. packed' = Null /\ kind' = kind /\ guest' = guest
    BY <1>4
  <2> QED
    BY <2>1, <2>2, <2>3, <2>4 DEF HeldIsLive, Size
<1>10. CalledHeapExact' /\ OtherHeapsExact'
  BY <1>3, <1>4, <1>8 DEF MemoryInv, CalledHeapExact, OtherHeapsExact, LiveIn
<1> QED
  BY <1>4, <1>5, <1>9, <1>10 DEF MemoryInv, HandsEmpty, NoFault, CompileReturns

LEMMA TrapStep ==
  ASSUME MemoryInv, Trap
  PROVE  MemoryInv'
<1>1. /\ UNCHANGED <<open, heap, kind, guest, want, bufs, fault>>
      /\ packed' = Null /\ at' = "free" /\ result' = "trapped" /\ at \in {"guest", "packed"}
  BY DEF Trap
<1>2. CASE at = "guest"
  <2>1. packed = Null /\ lost' = lost
    BY <1>2 DEF Trap, MemoryInv, HandsEmpty
  <2>2. MemoryTypeOK' /\ HandsEmpty'
    BY <1>1, <2>1 DEF MemoryInv, MemoryTypeOK, HandsEmpty, Places
  <2> QED
    BY <1>1, <2>1, <2>2, SameHands
<1>3. CASE at = "packed"
  <2> DEFINE a == packed.ptr
  <2>1. /\ packed # Null /\ a \in Addrs /\ Held = Ptrs \cup {a} /\ guest \in Guests
        /\ lost \in [Guests -> SUBSET Addrs]
    BY <1>3, HeldSplit DEF MemoryInv, HandsEmpty, MemoryTypeOK, Buffers
  <2>2. lost' = [lost EXCEPT ![guest] = lost[guest] \cup {a}]
    BY <1>3 DEF Trap
  <2>3. /\ lost' \in [Guests -> SUBSET Addrs] /\ lost'[guest] = lost[guest] \cup {a}
        /\ \A g \in Guests \ {guest} : lost'[g] = lost[g]
    BY <2>1, <2>2
  <2>4. MemoryTypeOK'
    BY <1>1, <2>3 DEF MemoryInv, MemoryTypeOK, Places
  <2>5. \A i \in DOMAIN bufs : bufs[i].ptr \in Addrs /\ bufs[i].ptr # a
    BY HeldSplit DEF MemoryInv, HeldIsLive
  <2>6. Held' = Ptrs /\ a \notin Ptrs
    BY <1>1, <2>4, <2>5, HeldSplit DEF Held, Ptrs
  <2>7. CalledHeapExact' /\ OtherHeapsExact'
    BY <1>1, <2>1, <2>3, <2>6 DEF MemoryInv, CalledHeapExact, OtherHeapsExact, LiveIn
  <2>8. HeldIsLive'
    <3>1. \A i \in DOMAIN bufs : /\ heap[guest][bufs[i].ptr] = Size(bufs[i].len)
                                 /\ bufs[i].ptr # Null.ptr
      BY <2>5, NullIsNoAddress DEF MemoryInv, HeldIsLive
    <3>2. \A i, j \in DOMAIN bufs : i # j => bufs[i].ptr # bufs[j].ptr
      BY DEF MemoryInv, HeldIsLive
    <3> QED
      BY <1>1, <3>1, <3>2 DEF HeldIsLive, Size
  <2> QED
    BY <1>1, <2>4, <2>7, <2>8 DEF MemoryInv, HandsEmpty, NoFault
<1> QED
  BY <1>1, <1>2, <1>3

LEMMA CallEndsStep ==
  ASSUME MemoryInv, CallEnds
  PROVE  MemoryInv'
<1>1. /\ packed = Null /\ at' = "out" /\ kind' = NoCall
      /\ UNCHANGED <<open, guest, want, packed, result>>
  BY DEF CallEnds, MemoryInv, HandsEmpty
<1>2. CASE kind = "compile" /\ result = "trapped"
  <2>1. /\ lost' = [lost EXCEPT ![guest] = lost[guest] \cup Ptrs]
        /\ bufs' = << >> /\ UNCHANGED <<heap, fault>>
    BY <1>2 DEF CallEnds, Ptrs
  <2>2. Held = Ptrs /\ Ptrs \subseteq Addrs
    BY <1>1, HeldSplit DEF MemoryInv
  <2>3. guest \in Guests /\ lost \in [Guests -> SUBSET Addrs] /\ fault = FALSE
    BY DEF MemoryInv, MemoryTypeOK, NoFault
  <2>4. /\ lost' \in [Guests -> SUBSET Addrs] /\ lost'[guest] = lost[guest] \cup Held
        /\ \A g \in Guests \ {guest} : lost'[g] = lost[g]
    BY <2>1, <2>2, <2>3
  <2>5. MemoryTypeOK'
    BY <1>1, <2>1, <2>4 DEF MemoryInv, MemoryTypeOK, Places
  <2>6. \A g \in Guests : {b \in Addrs : heap'[g][b] # 0} = lost'[g]
    BY <2>1, <2>4 DEF MemoryInv, CalledHeapExact, OtherHeapsExact, LiveIn
  <2> QED
    BY <1>1, <2>1, <2>3, <2>5, <2>6, NoHands
<1>3. CASE ~(kind = "compile" /\ result = "trapped")
  <2>1. FreeAll /\ lost' = lost
    BY <1>3 DEF CallEnds
  <2>2. MemoryTypeOK'
    <3>1. /\ heap' \in [Guests -> [Addrs -> Nat]] /\ fault' \in BOOLEAN
          /\ bufs' \in Seq(Buffers)
      BY <1>1, <2>1, FreedHeap
    <3> QED
      BY <1>1, <2>1, <3>1 DEF MemoryInv, MemoryTypeOK, Places
  <2>3. \A g \in Guests : {b \in Addrs : heap'[g][b] # 0} = lost'[g]
    BY <1>1, <2>1, FreedHeap DEF MemoryInv, OtherHeapsExact, LiveIn
  <2> QED
    BY <1>1, <2>1, <2>2, <2>3, FreedHeap, NoHands
<1> QED
  BY <1>2, <1>3

-----------------------------------------------------------------------------
(* The guests come and go. *)

LEMMA OpenStep ==
  ASSUME MemoryInv, NEW g \in Guests, Open(g)
  PROVE  MemoryInv'
<1>1. MemoryTypeOK' /\ HandsEmpty'
  BY DEF MemoryInv, MemoryTypeOK, HandsEmpty, Open
<1> QED
  BY <1>1, SameHands DEF Open

\* What Closed leaves of the heaps.
LEMMA ClosedHeaps ==
  ASSUME MemoryInv, NEW gs \in SUBSET Guests, Closed(gs)
  PROVE  /\ heap' \in [Guests -> [Addrs -> Nat]] /\ lost' \in [Guests -> SUBSET Addrs]
         /\ open' \subseteq Guests
         /\ \A g \in gs : {b \in Addrs : heap'[g][b] # 0} = {} /\ lost'[g] = {}
         /\ \A g \in Guests \ gs : heap'[g] = heap[g] /\ lost'[g] = lost[g]
<1>1. Empty \in [Addrs -> Nat] /\ \A b \in Addrs : Empty[b] = 0
  BY DEF Empty
<1>2. \A g \in Guests : heap[g] \in [Addrs -> Nat] /\ lost[g] \in SUBSET Addrs
  BY DEF MemoryInv, MemoryTypeOK
<1>3. /\ heap' = [g \in Guests |-> IF g \in gs THEN Empty ELSE heap[g]]
      /\ lost' = [g \in Guests |-> IF g \in gs THEN {} ELSE lost[g]]
      /\ open' = open \ gs
  BY DEF Closed
<1>4. heap' \in [Guests -> [Addrs -> Nat]] /\ lost' \in [Guests -> SUBSET Addrs]
  BY <1>1, <1>2, <1>3
<1> QED
  BY <1>1, <1>3, <1>4 DEF MemoryInv, MemoryTypeOK

LEMMA CloseStep ==
  ASSUME MemoryInv, NEW gs \in SUBSET Guests, Close(gs)
  PROVE  MemoryInv'
<1>1. Closed(gs) /\ UNCHANGED <<kind, guest, at, want, bufs, packed, result, fault>>
  BY DEF Close
<1>2. MemoryTypeOK'
  BY <1>1, ClosedHeaps DEF MemoryInv, MemoryTypeOK
<1>3. \A g \in Guests : {b \in Addrs : heap'[g][b] # 0} = lost'[g]
  <2>1. at = "out"
    BY DEF Close
  <2>2. \A g \in Guests : {b \in Addrs : heap[g][b] # 0} = lost[g]
    BY <2>1, OutIsExact DEF LiveIn
  <2>3. ASSUME NEW g \in gs PROVE {b \in Addrs : heap'[g][b] # 0} = lost'[g]
    BY <1>1, ClosedHeaps
  <2>4. ASSUME NEW g \in Guests \ gs PROVE {b \in Addrs : heap'[g][b] # 0} = lost'[g]
    BY <1>1, <2>2, ClosedHeaps
  <2> QED
    BY <2>3, <2>4
<1> QED
  BY <1>1, <1>2, <1>3, OutIsExact, NoHands DEF Close

LEMMA CutOffStep ==
  ASSUME MemoryInv, CutOff
  PROVE  MemoryInv'
<1>1. /\ Closed({guest}) /\ {guest} \in SUBSET Guests /\ packed = Null /\ fault = FALSE
      /\ at' = "out" /\ kind' = NoCall /\ bufs' = << >> /\ result' = "error"
      /\ UNCHANGED <<guest, want, packed, fault>>
  BY DEF CutOff, MemoryInv, MemoryTypeOK, HandsEmpty, NoFault
<1>2. MemoryTypeOK'
  <2>1. bufs' \in Seq(Buffers)
    BY <1>1
  <2> QED
    BY <1>1, <2>1, ClosedHeaps DEF MemoryInv, MemoryTypeOK, Places
<1>3. \A g \in Guests : {b \in Addrs : heap'[g][b] # 0} = lost'[g]
  BY <1>1, ClosedHeaps DEF MemoryInv, OtherHeapsExact, LiveIn
<1> QED
  BY <1>1, <1>2, <1>3, NoHands

LEMMA CallStepKeeps ==
  ASSUME MemoryInv, CallStep
  PROVE  MemoryInv'
<1>1. 0..MaxLen \subseteq Nat
  BY MemoryAssumption DEF MemoryAssumption
<1> QED
  BY <1>1, AllocNextStep, AllocFailsStep, MovesOn, GuestTakesStep, SyncAnswersStep,
     CompileReturnsStep, TrapStep, CutOffStep, CallEndsStep DEF CallStep

LEMMA MemoryNextKeeps == MemoryInv /\ [MemoryNext]_mvars => MemoryInv'
<1> SUFFICES ASSUME MemoryInv, [MemoryNext]_mvars PROVE MemoryInv'
  OBVIOUS
<1>1. CASE \E k \in Kinds, g \in Guests : \E lens \in Lens(k) : BeginCall(k, g, lens)
  BY <1>1, LensType, BeginCallStep
<1>2. CASE CallStep
  BY <1>2, CallStepKeeps
<1>3. CASE \E g \in Guests : Open(g)
  BY <1>3, OpenStep
<1>4. CASE \E gs \in SUBSET Guests : Close(gs)
  BY <1>4, CloseStep
<1>5. CASE UNCHANGED mvars
  <2>1. MemoryTypeOK' /\ HandsEmpty'
    BY <1>5 DEF mvars, MemoryInv, MemoryTypeOK, HandsEmpty
  <2> QED
    BY <1>5, <2>1, SameHands DEF mvars
<1> QED
  BY <1>1, <1>2, <1>3, <1>4, <1>5 DEF MemoryNext

-----------------------------------------------------------------------------
(* The theorems. *)

LEMMA MemoryInductive == MemorySpec => []MemoryInv
  BY MInit, MemoryNextKeeps, PTL DEF MemorySpec

\* Whoever makes the calls, no dealloc is undefined: neither the host's nor the
\* guest's, for empty buffers, after traps, and with the host's alloc in an import.
THEOREM NoFaultHolds == MemorySpec => []NoFault
<1>1. MemoryInv => NoFault
  BY DEF MemoryInv
<1> QED
  BY <1>1, MemoryInductive, PTL

\* A buffer has one holder and its size while it is held.
THEOREM HeldIsLiveHolds == MemorySpec => []HeldIsLive
<1>1. MemoryInv => HeldIsLive
  BY DEF MemoryInv
<1> QED
  BY <1>1, MemoryInductive, PTL

\* Between calls nothing is live but what the traps took.
THEOREM NothingLeftHolds == MemorySpec => []NothingLeft
<1>1. MemoryInv => NothingLeft
  <2> SUFFICES ASSUME MemoryInv, at = "out", NEW g \in open
               PROVE  {a \in Addrs : heap[g][a] # 0} = lost[g]
    BY DEF NothingLeft
  <2>1. g \in Guests
    BY DEF MemoryInv, MemoryTypeOK
  <2> QED
    BY <2>1, OutIsExact DEF LiveIn
<1> QED
  BY <1>1, MemoryInductive, PTL
=============================================================================
