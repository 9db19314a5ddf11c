--------------------------------- MODULE Cbloom ---------------------------------
(***************************************************************************)
(* The Bloom filter of 09-unsafe-ffi/src (bloom.rs, hash.rs) as a C        *)
(* program sees it through ffi.rs: opaque handles and byte buffers that    *)
(* Rust allocates, C holds, and Rust frees.                                *)
(*                                                                         *)
(* C keeps the contract of the header: it passes what it holds, or null    *)
(* (then nothing happens), and frees once.  The allocator may hand out a   *)
(* freed address again.  The two FNV hashes of an item are any functions.  *)
(***************************************************************************)
EXTENDS Integers, FiniteSets

CONSTANTS
    Items, H1, H2,  \* item |-> its hashes
    U,              \* 2^64
    W,              \* bits to a word
    Sizes,          \* what Bloom::new computes: bits and probes
    Pointers,
    MaxAdditions,   \* bound: additions to a filter
    ForeignBits     \* header fields num_bits that no filter has, to read as well

ASSUME CbloomAssumption ==
    /\ W \in Nat \ {0} /\ U \in Nat \ {0} /\ U % W = 0
    /\ H1 \in [Items -> 0 .. U - 1] /\ H2 \in [Items -> 0 .. U - 1]
    /\ Sizes \subseteq [bits: Nat, hashes: Nat] /\ MaxAdditions \in Nat
    /\ ForeignBits \subseteq Nat

(***************************************************************************)
(* Hashing.                                                                *)
(***************************************************************************)

\* Taking the second hash as it is.
AsIs(h) == h

\* h | 1
Odd(h) == IF h % 2 = 0 THEN h + 1 ELSE h

BitIndex(x, i, m) == ((H1[x] + i * Odd(H2[x])) % U) % m

\* The probes of an item, and those that panic: a division by zero, or an index beyond
\* the words.
ProbesOf(f, x) == 0 .. f.hashes - 1
Index(f, x, i) == BitIndex(x, i, f.bits)
Panics(f, x) == {i \in ProbesOf(f, x) : f.bits = 0 \/ Index(f, x, i) >= f.words * W}

(***************************************************************************)
(* The filter: `set` are the bits that are 1, `items` (history) what was   *)
(* added to it.                                                            *)
(***************************************************************************)
Words(n) == IF n = 0 THEN 1 ELSE (n + W - 1) \div W

WithParams(n, k) ==
    [set |-> {}, words |-> Words(n), bits |-> Words(n) * W,
     hashes |-> IF k = 0 THEN 1 ELSE k, inserted |-> 0, items |-> {}]

\* Additions stop at the first probe that panics, and ffi.rs catches it.
Done(f, x) == {i \in ProbesOf(f, x) : \A j \in Panics(f, x) : i < j}

Added(f, x) ==
    [f EXCEPT !.set = @ \cup {Index(f, x, i) : i \in Done(f, x)},
              !.inserted = IF Panics(f, x) = {} THEN @ + 1 ELSE @,
              !.items = @ \cup {x}]

\* A probe that panics counts as absent.
Reports(f, x) == Panics(f, x) = {} /\ \A i \in ProbesOf(f, x) : Index(f, x, i) \in f.set

(***************************************************************************)
(* The bytes of a filter: a header and the words behind it.                *)
(***************************************************************************)
HeaderLen == 25
ByteLen(words) == HeaderLen + 8 * words

\* Bit i is bit i % W of word i \div W.
Packed(f) == [w \in 0 .. f.words - 1 |-> {b \in 0 .. W - 1 : w * W + b \in f.set}]

\* Words put together without regard to their place.
InPlace(words) == UNION {words[w] : w \in DOMAIN words}

Unpacked(words) == UNION {{w * W + b : b \in words[w]} : w \in DOMAIN words}

Stored(f) ==
    [magic |-> TRUE, bits |-> f.bits, hashes |-> f.hashes, inserted |-> f.inserted,
     words |-> Packed(f), len |-> ByteLen(f.words), items |-> f.items]

\* What from_bytes builds from a buffer it accepts.
FromBytes(b) ==
    [set |-> Unpacked(b.words), words |-> b.bits \div W, bits |-> b.bits,
     hashes |-> b.hashes, inserted |-> b.inserted, items |-> b.items]

\* The header may promise any number of bits; the words must match it.
Accepted(b) == b.magic /\ b.len = ByteLen(b.bits \div W)

\* A buffer that no filter wrote, of empty words.
Foreign(b, n) ==
    [b EXCEPT !.bits = n, !.words = [w \in 0 .. (n \div W) - 1 |-> {}],
              !.len = ByteLen(n \div W), !.items = {}]

\* What may become of bytes on their way, through a file or a socket.
Damaged(b) ==
    {[b EXCEPT !.magic = FALSE], [b EXCEPT !.len = @ - 8], [b EXCEPT !.len = HeaderLen - 1]}
    \cup {Foreign(b, n) : n \in ForeignBits}

VARIABLES
    heap,   \* address |-> the block Rust has there: its kind, size and content
    held    \* pointer C holds |-> its kind and, of a buffer, the len beside it

cbVars == <<heap, held>>

CbloomInit == heap = << >> /\ held = << >>

Without(f, p) == [q \in DOMAIN f \ {p} |-> f[q]]
With(f, p, x) == [q \in DOMAIN f \cup {p} |-> IF q = p THEN x ELSE f[q]]

Handles == {p \in DOMAIN held : held[p].kind = "filter"}
Buffers == {p \in DOMAIN held : held[p].kind = "bytes"}
Filter(p) == heap[p].content

(***************************************************************************)
(* The C interface.                                                        *)
(***************************************************************************)

\* Box::into_raw: C gets the pointer, and nothing is freed.
Given(p, kind, size, len, content) ==
    /\ p \in Pointers \ DOMAIN heap
    /\ heap' = With(heap, p, [kind |-> kind, size |-> size, content |-> content])
    /\ held' = With(held, p, [kind |-> kind, len |-> len])

\* Box::from_raw, and the drop.
Freed(p) == heap' = Without(heap, p) /\ held' = Without(held, p)

New(p, s) == Given(p, "filter", 0, 0, WithParams(Words(s.bits) * W, s.hashes))

Free(p) == p \in Handles /\ Freed(p)

\* With a length, or as a C string.
Add(p, x) ==
    /\ p \in Handles /\ Filter(p).inserted < MaxAdditions
    /\ heap' = [heap EXCEPT ![p].content = Added(@, x)]
    /\ UNCHANGED held

\* A Vec that grew as bytes were appended has room to spare.
Spare(n) == 2 * n

\* into_boxed_slice gives the room back.
Boxed(n) == n

Serialize(p, q) ==
    LET b == Stored(Filter(p))
    IN p \in Handles /\ Given(q, "bytes", Boxed(b.len), b.len, b)

BufferFree(q) == q \in Buffers /\ Freed(q)

\* The bytes are the buffer C got from Rust, or what became of them elsewhere.
Deserialize(q, p) ==
    /\ q \in Buffers
    /\ \E b \in {heap[q].content} \cup Damaged(heap[q].content) :
          Accepted(b) /\ Given(p, "filter", 0, 0, FromBytes(b))

CbloomNext ==
    \E p \in Pointers :
       \/ \E s \in Sizes : New(p, s)
       \/ Free(p) \/ BufferFree(p)
       \/ \E x \in Items : Add(p, x)
       \/ \E q \in Pointers : Serialize(p, q) \/ Deserialize(p, q)

CbloomSpec == CbloomInit /\ [][CbloomNext]_cbVars

(***************************************************************************)
(* Properties.                                                             *)
(***************************************************************************)

(***************************************************************************)
(* ffi.rs: "memory crosses the boundary with an owner".  What C holds is   *)
(* what Rust has allocated, no less (a dangling pointer) and no more (a    *)
(* leak), and a buffer is freed with the size it was allocated with.       *)
(***************************************************************************)
HeldIsLive ==
    /\ DOMAIN held = DOMAIN heap
    /\ \A p \in DOMAIN held : held[p].kind = heap[p].kind
    /\ \A q \in Buffers : held[q].len = heap[q].size

(***************************************************************************)
(* "Everything inserted must report present", also after any number of     *)
(* round trips through bytes, and nothing reports present but for the bits *)
(* of what was inserted.                                                   *)
(***************************************************************************)
NoFalseNegatives ==
    \A p \in Handles : \A x \in Filter(p).items : Reports(Filter(p), x)

BitsAreProbes ==
    \A p \in Handles :
       LET f == Filter(p)
       IN f.set = UNION {{Index(f, x, i) : i \in ProbesOf(f, x)} : x \in f.items}

Faithful == NoFalseNegatives /\ BitsAreProbes

(***************************************************************************)
(* hash.rs forces the second hash odd so that the probes do not get "stuck *)
(* on a small cycle": up to W probes of an item are different bits.        *)
(***************************************************************************)
ProbesDiffer ==
    \A p \in Handles : \A x \in Items : \A i, j \in ProbesOf(Filter(p), x) :
       i < j /\ j < W => Index(Filter(p), x, i) # Index(Filter(p), x, j)
===============================================================================
