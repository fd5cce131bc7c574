---------------------------- MODULE AdjustedTime ----------------------------
(***************************************************************************)
(* The network-adjusted time (timedata.cpp): the median of the clock       *)
(* offsets of peers, each address counted once, among them a zero for the  *)
(* node's own clock.  Offsets are in some unit of time; the filter and the *)
(* limits are scaled down.                                                 *)
(***************************************************************************)
EXTENDS Integers, Sequences, FiniteSets

CONSTANTS
    Ip,             \* addresses of peers
    Offset,         \* the offsets their clocks may have
    FilterSize,     \* 200
    MinSamples,     \* 5
    MaxAdjust,      \* 70 minutes
    Near            \* 5 minutes

ASSUME TimeAssumption ==
    /\ Offset \subseteq Int /\ {MaxAdjust, Near} \subseteq Nat \ {0}
    /\ FilterSize \in Nat /\ FilterSize % 2 = 0 /\ MinSamples \in 1 .. FilterSize

VARIABLES
    setKnown,       \* addresses that gave a sample
    vTimeOffsets,   \* the values of the filter, oldest first
    nTimeOffset,
    fDone,          \* the user was warned of a wrong clock
    basis           \* history: the values nTimeOffset was last computed from

timeVars == <<setKnown, vTimeOffsets, nTimeOffset, fDone, basis>>

TimeInit ==
    /\ setKnown = {} /\ vTimeOffsets = <<0>> /\ nTimeOffset = 0
    /\ fDone = FALSE /\ basis = <<>>

abs64(n) == IF n < 0 THEN -n ELSE n

\* CMedianFilter::input
Input(values, x) == Append(IF Len(values) = FilterSize THEN Tail(values) ELSE values, x)

\* vSorted[k - 1]: no more than k - 1 values are less, and at least k no greater.
Ranked(values, k) ==
    CHOOSE v \in {values[i] : i \in DOMAIN values} :
        /\ Cardinality({i \in DOMAIN values : values[i] < v}) < k
        /\ Cardinality({i \in DOMAIN values : values[i] <= v}) >= k

\* A slip: the value after the middle one.
MedianNext(values) == Ranked(values, Len(values) \div 2 + 2)

\* CMedianFilter::median of an odd number of values, the only ones it is asked for.
Median(values) == Ranked(values, Len(values) \div 2 + 1)

\* AddTimeData, with the offset d of the peer at ip.
AddTimeData(ip, d) ==
    LET values == Input(vTimeOffsets, d)
        counted == Len(values) >= MinSamples /\ Len(values) % 2 = 1
        small == abs64(Median(values)) < MaxAdjust
        match == \E i \in DOMAIN values : values[i] # 0 /\ abs64(values[i]) < Near
    IN  /\ ip \notin setKnown
        /\ setKnown' = setKnown \cup {ip}
        /\ vTimeOffsets' = values
        /\ nTimeOffset' = CASE ~counted -> nTimeOffset
                            [] counted /\ small -> Median(values)
                            [] OTHER -> 0
        /\ fDone' = (fDone \/ (counted /\ ~small /\ ~match))
        /\ basis' = IF counted THEN values ELSE basis

-----------------------------------------------------------------------------
\* The types of the state, and the size of the filter.
TimeTypeOK ==
    /\ setKnown \subseteq Ip /\ vTimeOffsets \in Seq(Offset \cup {0})
    /\ Len(vTimeOffsets) \in 1 .. FilterSize /\ fDone \in BOOLEAN
    /\ abs64(nTimeOffset) < MaxAdjust

\* The values of s between lo and hi.
Between(s, lo, hi) == {i \in DOMAIN s : lo <= s[i] /\ s[i] <= hi}

\* As long as more than half of the clocks, the node's own among them, agree
\* to within some bounds, the others cannot push the adjusted time out of them:
\* it is theirs, or the node's own where theirs is off by too much.
MajorityKeepsTime ==
    \A lo, hi \in Offset \cup {0} :
        2 * Cardinality(Between(basis, lo, hi)) > Len(basis) =>
            nTimeOffset = 0 \/ (lo <= nTimeOffset /\ nTimeOffset <= hi)

\* The adjusted time is bounded, and a minority of clocks does not set it,
\* also once the filter is full and lets its oldest value go.
TimeSound == TimeTypeOK /\ MajorityKeepsTime
=============================================================================
