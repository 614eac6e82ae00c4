------------------------------- MODULE Memory -------------------------------
(***************************************************************************)
(* The buffers in the linear memory of the guests.  The host has no other  *)
(* way to pass bytes: it calls the export alloc, writes, calls an export   *)
(* with the pointer, and calls dealloc, whatever the export did.  A        *)
(* synchronous RPC goes the other way in the middle of an export: the      *)
(* host calls alloc from inside its import, and the guest frees.  compile  *)
(* returns a buffer of the guest's, which the host frees.                  *)
(*                                                                         *)
(* dealloc trusts its caller: a size that is not that of the allocation,   *)
(* or a buffer that is not live, is undefined behaviour in Rust (fault).   *)
(***************************************************************************)
EXTENDS Integers, Sequences, FiniteSets

CONSTANTS Guests,   \* the guest modules, instances and the compiler's
          Addrs,    \* where a buffer may be
          MaxLen    \* bound: the length of what is passed

\* alloc returns null for no memory: null is no address.
ASSUME MemoryAssumption == MaxLen \in Nat /\ "null" \notin Addrs

VARIABLES
  open,     \* the guests whose module is instantiated and not closed
  heap,     \* the size of the buffer at each address of each guest, 0 for none
  kind,     \* what the host calls, or NoCall
  guest,    \* the guest it calls
  at,       \* where the call is, see Places
  want,     \* the lengths still to be passed
  bufs,     \* the buffers the call holds, in order
  packed,   \* a buffer on its way across the boundary, or Null
  result    \* the outcome of the last call

VARIABLES
  lost,     \* history: the buffers a trap took from each guest's hands
  fault     \* history: a dealloc was undefined

mvars == <<open, heap, kind, guest, at, want, bufs, packed, result, lost, fault>>

NoCall == "none"
(***************************************************************************)
(* Eval, EvalCompiled and the prelude of newInstance pass one buffer, as   *)
(* do resolveRPC and rejectRPC ("eval" stands for all of them),            *)
(* DispatchEvent two, and Compile one to a guest of its own.               *)
(***************************************************************************)
Kinds == {"eval", "dispatch", "compile"}

(***************************************************************************)
(* "out": no call; "alloc": buffers are allocated and written; "guest":    *)
(* the export runs; "sync": hostRPCSync runs; "packed": its answer is the  *)
(* guest's; "free": the export is over.                                    *)
(***************************************************************************)
Places == {"out", "alloc", "guest", "sync", "packed", "free"}

Buffers == [ptr : Addrs, len : Nat]
Null == [ptr |-> "null", len |-> 0]

MemoryTypeOK ==
  /\ open \subseteq Guests
  /\ heap \in [Guests -> [Addrs -> Nat]]
  /\ kind \in Kinds \cup {NoCall}
  /\ guest \in Guests
  /\ at \in Places
  /\ want \in Seq(Nat) /\ bufs \in Seq(Buffers)
  /\ packed \in Buffers \cup {Null}
  /\ result \in {"ok", "error", "trapped"}
  /\ lost \in [Guests -> SUBSET Addrs]
  /\ fault \in BOOLEAN

Empty == [a \in Addrs |-> 0]

MemoryInit ==
  /\ open = {} /\ heap = [g \in Guests |-> Empty]
  /\ kind = NoCall /\ guest \in Guests /\ at = "out" /\ want = << >> /\ bufs = << >>
  /\ packed = Null /\ result = "ok"
  /\ lost = [g \in Guests |-> {}] /\ fault = FALSE

-----------------------------------------------------------------------------
(* The exports alloc and dealloc, and the host's wrappers around them. *)

\* A length of 0 is passed as a buffer of one byte, except by compileBytecode.
Size(len) == IF len = 0 /\ kind # "compile" THEN 1 ELSE len

\* alloc: null for 0 bytes, or when the memory is used up.
Allocates(a, size) ==
  /\ size > 0 /\ heap[guest][a] = 0
  /\ heap' = [heap EXCEPT ![guest][a] = size]

\* What dealloc leaves of a heap h, and whether it is undefined.
Without(h, a, size) == IF size = 0 THEN h ELSE [h EXCEPT ![a] = 0]
Undefined(h, a, size) == size > 0 /\ h[a] # size

\* wasmDealloc of every buffer the call holds, by their sizes; no two have the same
\* address.
Free(sizes) ==
  /\ heap' = [heap EXCEPT ![guest] =
                [a \in Addrs |-> IF \E i \in DOMAIN bufs : bufs[i].ptr = a /\ sizes[i] > 0
                                THEN 0 ELSE heap[guest][a]]]
  /\ fault' = (fault \/ \E i \in DOMAIN bufs :
                          Undefined(heap[guest], bufs[i].ptr, sizes[i]))
  /\ bufs' = << >>

\* A variant the runs must reject: the length is not clamped when a buffer is freed.
freeUnclamped == Free([i \in DOMAIN bufs |-> bufs[i].len])

FreeAll == Free([i \in DOMAIN bufs |-> Size(bufs[i].len)])

-----------------------------------------------------------------------------
(* A call of an export that is given bytes. *)

BeginCall(k, g, lens) ==
  /\ at = "out" /\ g \in open
  /\ Len(lens) = (IF k = "dispatch" THEN 2 ELSE 1)
  /\ kind' = k /\ guest' = g /\ want' = lens /\ at' = "alloc"
  /\ UNCHANGED <<open, heap, bufs, packed, result, lost, fault>>

\* wasmAlloc and wasmWrite of the next buffer, or the export is called.
AllocNext(a) ==
  /\ at = "alloc" /\ want # << >>
  /\ Allocates(a, Size(Head(want)))
  /\ bufs' = Append(bufs, [ptr |-> a, len |-> Head(want)])
  /\ want' = Tail(want)
  /\ at' = IF Len(want) = 1 THEN "guest" ELSE "alloc"
  /\ UNCHANGED <<open, kind, guest, packed, result, lost, fault>>

\* A variant the runs must reject: the null that alloc returned is not looked at.
allocUnchecked ==
  /\ at = "alloc" /\ want # << >>
  /\ bufs' = Append(bufs, [Null EXCEPT !.len = Head(want)])
  /\ want' = Tail(want)
  /\ at' = IF Len(want) = 1 THEN "guest" ELSE "alloc"
  /\ UNCHANGED <<open, heap, kind, guest, packed, result, lost, fault>>

\* alloc returned null, or failed: what was allocated before is freed.
AllocFails ==
  /\ at = "alloc" /\ want # << >>
  /\ at' = "out" /\ kind' = NoCall /\ want' = << >> /\ result' = "error"
  /\ FreeAll
  /\ UNCHANGED <<open, guest, packed, lost>>

\* host.rpcSync: the handler, or the error of a method nobody handles.
SyncRPC ==
  /\ at = "guest" /\ kind # "compile"
  /\ at' = "sync"
  /\ UNCHANGED <<open, heap, kind, guest, want, bufs, packed, result, lost, fault>>

\* A variant the runs must reject: the tag is not counted in the length.
packWithoutTag(a, len) ==
  /\ at = "sync"
  /\ Allocates(a, 1 + len)
  /\ packed' = [ptr |-> a, len |-> len]
  /\ at' = "packed"
  /\ UNCHANGED <<open, kind, guest, want, bufs, result, lost, fault>>

\* writeSyncRPCResult: the tag and the payload, in a buffer that is now the guest's.
SyncAnswers(a, len) ==
  /\ at = "sync"
  /\ Allocates(a, 1 + len)
  /\ packed' = [ptr |-> a, len |-> 1 + len]
  /\ at' = "packed"
  /\ UNCHANGED <<open, kind, guest, want, bufs, result, lost, fault>>

\* It returns 0: no memory, or the arguments cannot be read; the JS throws.
SyncFails ==
  /\ at = "sync" /\ at' = "guest"
  /\ UNCHANGED <<open, heap, kind, guest, want, bufs, packed, result, lost, fault>>

\* __host_rpc_sync_native copies the answer and frees it.
GuestTakes ==
  /\ at = "packed" /\ kind # "compile"
  /\ heap' = [heap EXCEPT ![guest] = Without(heap[guest], packed.ptr, packed.len)]
  /\ fault' = (fault \/ Undefined(heap[guest], packed.ptr, packed.len))
  /\ packed' = Null /\ at' = "guest"
  /\ UNCHANGED <<open, kind, guest, want, bufs, result, lost>>

\* The export returns; compile has failed, or the others have reported otherwise.
ExportReturns ==
  /\ at = "guest" /\ at' = "free"
  /\ result' = IF kind = "compile" THEN "error" ELSE "ok"
  /\ UNCHANGED <<open, heap, kind, guest, want, bufs, packed, lost, fault>>

\* compile returns its bytecode in a buffer that is now the host's.
CompileReturns(a, len) ==
  /\ at = "guest" /\ kind = "compile" /\ len > 0
  /\ Allocates(a, len)
  /\ bufs' = Append(bufs, [ptr |-> a, len |-> len])
  /\ at' = "free" /\ result' = "ok"
  /\ UNCHANGED <<open, kind, guest, want, packed, lost, fault>>

\* The export traps, between taking an answer and freeing it at the worst; the
\* memory stays, and dealloc can still be called.
Trap ==
  /\ at \in {"guest", "packed"}
  /\ lost' = IF at = "packed" THEN [lost EXCEPT ![guest] = @ \cup {packed.ptr}] ELSE lost
  /\ packed' = Null /\ at' = "free" /\ result' = "trapped"
  /\ UNCHANGED <<open, heap, kind, guest, want, bufs, fault>>

\* The buffers are freed; compileBytecode keeps them when compile trapped, as the
\* guest is about to be closed.
CallEnds ==
  /\ at = "free"
  /\ at' = "out" /\ kind' = NoCall
  /\ IF kind = "compile" /\ result = "trapped"
     THEN /\ lost' = [lost EXCEPT ![guest] = @ \cup {bufs[i].ptr : i \in DOMAIN bufs}]
          /\ bufs' = << >> /\ UNCHANGED <<heap, fault>>
     ELSE FreeAll /\ UNCHANGED lost
  /\ UNCHANGED <<open, guest, want, packed, result>>

-----------------------------------------------------------------------------
(* The life of a guest, which Runtime decides. *)

Open(g) ==
  /\ at = "out" /\ g \notin open
  /\ open' = open \cup {g}
  /\ UNCHANGED <<heap, kind, guest, at, want, bufs, packed, result, lost, fault>>

\* The memory of a closed guest is gone.
Closed(gs) ==
  /\ open' = open \ gs
  /\ heap' = [g \in Guests |-> IF g \in gs THEN Empty ELSE heap[g]]
  /\ lost' = [g \in Guests |-> IF g \in gs THEN {} ELSE lost[g]]

Close(gs) ==
  /\ at = "out" /\ gs \subseteq open
  /\ Closed(gs)
  /\ UNCHANGED <<kind, guest, at, want, bufs, packed, result, fault>>

\* The context ends during an export of a Runtime WithCloseOnContextDone: wazero
\* closes the module, and the deallocs of the error path fail.
CutOff ==
  /\ at = "guest"
  /\ Closed({guest})
  /\ at' = "out" /\ kind' = NoCall /\ bufs' = << >> /\ result' = "error"
  /\ UNCHANGED <<guest, want, packed, fault>>

\* The steps of a call, which are the same whoever makes it.
CallStep ==
  \/ \E a \in Addrs : AllocNext(a)
  \/ AllocFails
  \/ SyncRPC \/ SyncFails \/ GuestTakes
  \/ \E a \in Addrs, len \in 0..MaxLen : SyncAnswers(a, len) \/ CompileReturns(a, len)
  \/ ExportReturns \/ Trap \/ CutOff \/ CallEnds

Lens(k) == UNION {[1..n -> 0..MaxLen] : n \in {IF k = "dispatch" THEN 2 ELSE 1}}

MemoryNext ==
  \/ \E k \in Kinds, g \in Guests : \E lens \in Lens(k) : BeginCall(k, g, lens)
  \/ CallStep
  \/ \E g \in Guests : Open(g)
  \/ \E gs \in SUBSET Guests : Close(gs)

MemorySpec == MemoryInit /\ [][MemoryNext]_mvars
-----------------------------------------------------------------------------
(* Properties. *)

\* The buffers that somebody holds: the call, or whoever the packed one is for.
Held == {bufs[i].ptr : i \in DOMAIN bufs} \cup ({packed.ptr} \ {Null.ptr})

\* No dealloc is undefined: the buffer is live and its size is that of the allocation,
\* on every path, with an alloc of the host's in the middle of the guest's export.
NoFault == ~fault

\* Between calls no buffer is live, but for those that a trap took from the guest
\* before it could free them.
NothingLeft ==
  at = "out" => \A g \in open : {a \in Addrs : heap[g][a] # 0} = lost[g]

\* A buffer is held by one party at most, and is live, with its size, while it is
\* held: what the guest reads is what the host wrote.
HeldIsLive ==
  /\ \A i, j \in DOMAIN bufs : i # j => bufs[i].ptr # bufs[j].ptr
  /\ \A i \in DOMAIN bufs : /\ heap[guest][bufs[i].ptr] = Size(bufs[i].len)
                            /\ bufs[i].ptr # packed.ptr
  /\ packed # Null => heap[guest][packed.ptr] = packed.len
=============================================================================
