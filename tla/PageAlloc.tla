----------------------------- MODULE PageAlloc -----------------------------
(***************************************************************************)
(* What the physical allocator of mm/pm.c promises its callers, with no    *)
(* free lists: physical memory is a set of addresses, each one free,       *)
(* owned by exactly one caller, or never given to the allocator.           *)
(***************************************************************************)
EXTENDS Integers

CONSTANTS Addrs,    \* the addresses of physical memory
          Sizes     \* the block sizes callers may ask for (enum PMMAP)

VARIABLES free,     \* the addresses the allocator may hand out
          owned     \* the blocks <<first address, size>> callers hold

Block(a, n) == a .. (a + n - 1)

OwnedAddrs == UNION {Block(o[1], o[2]) : o \in owned}

AInit == free = {} /\ owned = {}

\* Start-up gives the allocator a block nobody owns and that is not yet free.
Donate(a, n) ==
    /\ Block(a, n) \cap (free \cup OwnedAddrs) = {}
    /\ free' = free \cup Block(a, n)
    /\ UNCHANGED owned

\* A caller gets a whole free block of the size it asked for.
Allocate(a, n) ==
    /\ Block(a, n) \subseteq free
    /\ free' = free \ Block(a, n)
    /\ owned' = owned \cup {<<a, n>>}

\* A caller gives back a block it owns.
Release(a, n) ==
    /\ <<a, n>> \in owned
    /\ owned' = owned \ {<<a, n>>}
    /\ free' = free \cup Block(a, n)

ANext == \E a \in Addrs, n \in Sizes :
            Donate(a, n) \/ Allocate(a, n) \/ Release(a, n)

ASpec == AInit /\ [][ANext]_<<free, owned>>
=============================================================================
