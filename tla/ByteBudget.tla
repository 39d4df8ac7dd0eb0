----------------------------- MODULE ByteBudget ------------------------------
(***************************************************************************)
(* The lock-free byte budget that admits request and response bodies       *)
(* (ByteBudget in cpp-mcp/include/devbox/resource_budget.hpp).  Each       *)
(* atomic operation is one action.  A word holds the values below Word, so *)
(* additions and subtractions wrap.                                        *)
(***************************************************************************)
EXTENDS Integers, FiniteSets

CONSTANTS
    Threads,   \* threads, each with at most one reservation
    Sizes,     \* bytes a thread may ask for
    Capacity,  \* State::capacity
    Word       \* the number of values of std::size_t

ASSUME BudgetConstants ==
    /\ IsFiniteSet(Threads)
    /\ Word \in Nat /\ Capacity \in 0 .. Word - 1 /\ Sizes \subseteq 0 .. Word - 1

VARIABLES
    used,   \* State::used
    peak,   \* State::peak
    pc,     \* idle, admit, peak, raise, allocate or hold
    bytes,  \* what each thread asks for or holds
    seen,   \* the value of used or peak each thread compares with
    top,    \* used + bytes of each thread's successful exchange
    high    \* history: the largest value of used

vars == <<used, peak, pc, bytes, seen, top, high>>

\* The thread's local variables go out of scope.
Leave(t) ==
    /\ pc' = [pc EXCEPT ![t] = "idle"]
    /\ bytes' = [bytes EXCEPT ![t] = 0]
    /\ seen' = [seen EXCEPT ![t] = 0]
    /\ top' = [top EXCEPT ![t] = 0]

\* acquire, up to the first load.
Acquire(t, b) ==
    /\ pc[t] = "idle"
    /\ bytes' = [bytes EXCEPT ![t] = b]
    /\ seen' = [seen EXCEPT ![t] = used]
    /\ pc' = [pc EXCEPT ![t] = "admit"]
    /\ UNCHANGED <<used, peak, top, high>>

\* Mutant: the sum is compared, and wraps.
FitsSum(t) == (seen[t] + bytes[t]) % Word <= Capacity

\* The subtraction cannot wrap: the request is no larger than the capacity.
Fits(t) == bytes[t] <= Capacity /\ seen[t] <= Capacity - bytes[t]

Reject(t) ==
    /\ pc[t] = "admit" /\ ~Fits(t)
    /\ Leave(t)
    /\ UNCHANGED <<used, peak, high>>

\* compare_exchange_weak succeeds only on an unchanged value.
Exchange(t) ==
    /\ pc[t] = "admit" /\ Fits(t) /\ used = seen[t]
    /\ used' = (used + bytes[t]) % Word
    /\ top' = [top EXCEPT ![t] = used']
    /\ high' = IF used' > high THEN used' ELSE high
    /\ pc' = [pc EXCEPT ![t] = "peak"]
    /\ UNCHANGED <<peak, bytes, seen>>

\* It fails on a changed value, and may fail on an unchanged one; either way the
\* thread compares with the current value next.
ExchangeFails(t) ==
    /\ pc[t] = "admit" /\ Fits(t)
    /\ seen' = [seen EXCEPT ![t] = used]
    /\ UNCHANGED <<used, peak, pc, bytes, top, high>>

LoadPeak(t) ==
    /\ pc[t] = "peak"
    /\ seen' = [seen EXCEPT ![t] = peak]
    /\ pc' = [pc EXCEPT ![t] = "raise"]
    /\ UNCHANGED <<used, peak, bytes, top, high>>

\* One round of the loop that raises the peak.
Raise(t) ==
    /\ pc[t] = "raise"
    /\ IF seen[t] < top[t]
       THEN \/ /\ peak = seen[t]
               /\ peak' = top[t]
               /\ pc' = [pc EXCEPT ![t] = "allocate"]
               /\ UNCHANGED seen
            \/ /\ seen' = [seen EXCEPT ![t] = peak]
               /\ UNCHANGED <<peak, pc>>
       ELSE pc' = [pc EXCEPT ![t] = "allocate"] /\ UNCHANGED <<peak, seen>>
    /\ UNCHANGED <<used, bytes, top, high>>

Allocate(t) ==
    /\ pc[t] = "allocate"
    /\ pc' = [pc EXCEPT ![t] = "hold"]
    /\ seen' = [seen EXCEPT ![t] = 0]
    /\ top' = [top EXCEPT ![t] = 0]
    /\ UNCHANGED <<used, peak, bytes, high>>

\* The reservation ends, or its allocation failed: the bytes go back.
Release(t) ==
    /\ pc[t] \in {"allocate", "hold"}
    /\ used' = (used - bytes[t]) % Word
    /\ Leave(t)
    /\ UNCHANGED <<peak, high>>

Init ==
    /\ used = 0
    /\ peak = 0
    /\ pc = [t \in Threads |-> "idle"]
    /\ bytes = [t \in Threads |-> 0]
    /\ seen = [t \in Threads |-> 0]
    /\ top = [t \in Threads |-> 0]
    /\ high = 0

Next ==
    \E t \in Threads :
        \/ \E b \in Sizes : Acquire(t, b)
        \/ Reject(t) \/ Exchange(t) \/ ExchangeFails(t)
        \/ LoadPeak(t) \/ Raise(t) \/ Allocate(t) \/ Release(t)

Spec == Init /\ [][Next]_vars
------------------------------------------------------------------------------
Charged == {t \in Threads : pc[t] \in {"peak", "raise", "allocate", "hold"}}

\* The bytes the admitted requests asked for, one by one: the i-th byte of thread t.
HeldBytes == {c \in Charged \X (1 .. Word) : c[2] <= bytes[c[1]]}

\* The budget neither leaks nor overcommits: used is exactly what the admitted requests
\* asked for, also after a reservation that could not be allocated.
Accounted == used = Cardinality(HeldBytes)

\* The bytes admitted together never exceed the capacity, even where the sum of two
\* requests does not fit a word.
WithinCapacity == Cardinality(HeldBytes) <= Capacity

\* The peak in the snapshot is exact once every admitted request has raised it: a slower
\* thread never replaces a higher peak by its own.
PeakExact ==
    (\A t \in Threads : pc[t] \notin {"peak", "raise"}) => peak = high

\* The budget as a whole: exact, never above its capacity, and with an exact peak
\* (MemoryBudget::reserve and the release of a reservation).
BudgetSound == Accounted /\ WithinCapacity /\ PeakExact
=============================================================================
