------------------------------- MODULE GeoHash -------------------------------
(***************************************************************************)
(* GeoHash cells, as the API computes them for an incident (geohash.py)    *)
(* and the app for the region its map shows (geohash.dart).                *)
(*                                                                         *)
(* Coordinates are integers, in cells of the stored precision counted from *)
(* the south-west corner: one unit is 180 / 2^17 = 360 / 2^18 degrees, to  *)
(* which bisection is exact up to 7 characters.  A hash is the sequence of *)
(* its bits, five for each character; MIN_PREFIX and MAX_PREFIX are kept   *)
(* in characters.                                                          *)
(***************************************************************************)
EXTENDS Integers, Sequences, FiniteSets, SequencesExt

STORAGE_PRECISION == 7
PARTITION_PRECISION == 4
MIN_PREFIX == 3
MAX_PREFIX == 7
MAX_SUBSCRIPTIONS == 50

LatBits == 17
LonBits == 18

\* Points of the earth; longitude 180 is -180.
Points == [lat : 0 .. 2^LatBits, lon : 0 .. 2^LonBits - 1]

\* Bit k of the bisection of a range of 2^bits units.  The middle belongs to the
\* upper half, and so does the end of the range to the last cell.
Bit(x, bits, k) == (LET inside == IF x < 2^bits THEN x ELSE 2^bits - 1
                    IN  inside \div 2^(bits - k)) % 2

\* encode: longitude and latitude are halved in turn.
Encode(point, precision) ==
    [b \in 1 .. 5 * precision |->
        IF b % 2 = 1 THEN Bit(point.lon, LonBits, (b + 1) \div 2)
                     ELSE Bit(point.lat, LatBits, b \div 2)]

\* bounds, decode: the south-west corner and the size of a cell.
Bounds(hash) ==
    LET CellBits(first) == {b \in DOMAIN hash : b % 2 = first % 2}
        Offset(first, bits) ==
            MapThenSumSet(LAMBDA b : hash[b] * 2^(bits - (b + 1) \div 2), CellBits(first))
    IN  [lat |-> Offset(0, LatBits), lon |-> Offset(1, LonBits),
         height |-> 2^(LatBits - Cardinality(CellBits(0))),
         width |-> 2^(LonBits - Cardinality(CellBits(1)))]

\* neighbors: the cell and those around it, fewer at a pole.
Neighbors(hash) ==
    LET cell == Bounds(hash)
        rows == {cell.lat + d * cell.height : d \in {-1, 0, 1}} \intersect 0 .. 2^LatBits - 1
    IN  {Encode([lat |-> lat, lon |-> (cell.lon + d * cell.width) % 2^LonBits], Len(hash) \div 5) :
           lat \in rows, d \in {-1, 0, 1}}

\* matches: does an event of this cell concern who subscribed to these prefixes?
Matches(hash, prefixes) == \E prefix \in prefixes : IsPrefix(prefix, hash)

\* validate_prefixes
Acceptable(prefixes) ==
    /\ Cardinality(prefixes) <= MAX_SUBSCRIPTIONS
    /\ \A prefix \in prefixes : Len(prefix) \in 5 * MIN_PREFIX .. 5 * MAX_PREFIX

-----------------------------------------------------------------------------
(* The cells around a point *)

\* geohashCellSize, in units.
CellSize(precision) ==
    [lat |-> 2^(LatBits - (5 * precision) \div 2),
     lon |-> 2^(LonBits - (5 * precision + 1) \div 2)]

Least(a, b) == IF a < b THEN a ELSE b
Clamp(lat) == IF lat < 0 THEN 0 ELSE Least(lat, 2^LatBits)
Wrap(lon) == lon % 2^LonBits

\* The values of the loop from .. to + size, the last one cut off at the edge.
Samples(from, to, size) ==
    {Least(from + k * size, to) : k \in 0 .. (to + size - from) \div size}

\* The cells of one precision that cover the box around home.
Cover(home, span, precision) ==
    LET size == CellSize(precision)
    IN  {Encode([lat |-> Clamp(lat), lon |-> Wrap(lon)], precision) :
           lat \in Samples(home.lat - span.lat, home.lat + span.lat, size.lat),
           lon \in Samples(home.lon - span.lon, home.lon + span.lon, size.lon)}

Fits(home, span, precision) == Cardinality(Cover(home, span, precision)) <= MAX_SUBSCRIPTIONS

\* geohashCellsAround: the finest of two precisions the server takes, or else
\* the cell of home.  The span is the radius in units of either axis.
CellsAround(home, span) ==
    IF Fits(home, span, PARTITION_PRECISION) THEN Cover(home, span, PARTITION_PRECISION)
    ELSE IF Fits(home, span, MIN_PREFIX) THEN Cover(home, span, MIN_PREFIX)
    ELSE {Encode(home, MIN_PREFIX)}
=============================================================================
