------------------------------ MODULE MCMapFeed ------------------------------
(***************************************************************************)
(* An instance of MapFeed: incident 1 is at the edge of the circle around  *)
(* home, where a hole in the cover would be, and incident 2, which exists  *)
(* from the start, near its middle.                                        *)
(***************************************************************************)
EXTENDS MapFeed

Point(lat, lon) == [lat |-> lat, lon |-> lon % 2^LonBits]

\* Home on the equator, with a radius of 50 km in units; the east is past the
\* antimeridian.
MCScene ==
    [home |-> Point(65546, 262000), span |-> Point(327, 327), legacy |-> {},
     place |-> <<Point(65546 + 327, 262000 + 327), Point(65540, 261990)>>]

\* What QuietClientIsCurrent of MapFeedProofs asks for holds here, and both incidents
\* are around home.
ASSUME SceneIsOnEarth == SceneOnEarth /\ Nearby = Incidents

-----------------------------------------------------------------------------
\* Circles of 50 km on the equator, west of the antimeridian and at 70 degrees
\* south, where the cells of precision 4 are too many; and a small one.
Homes ==
    {[home |-> Point(h[1], h[2]), span |-> Point(h[3], h[4])] :
       h \in {<<65536, 131072, 327, 327>>, <<65546, 262100, 327, 327>>,
              <<14563, 100, 327, 957>>, <<48000, 5000, 40, 45>>}}

Edge(s) ==
    {Point(s.home.lat + a * s.span.lat, s.home.lon + b * s.span.lon) :
       a \in {-1, 0, 1}, b \in {-1, 0, 1}}

\* geohashCellsAround against its purpose: an incident anywhere on the edge of
\* the box is in a cell the map subscribes to, and the hub takes all of them.
ASSUME CoverIsComplete ==
    \A s \in Homes :
        /\ Acceptable(CellsAround(s.home, s.span))
        /\ \A place \in Edge(s) :
             Matches(Encode(place, STORAGE_PRECISION), CellsAround(s.home, s.span))

\* encode against bounds: a point is in its cell, the end of the range in the
\* last one; and what is one unit outside a cell is in one of its neighbours.
ASSUME CellsHoldTheirPoints ==
    \A lat \in {0, 1, 14563, 65535, 65536, 2^LatBits}, lon \in {0, 131071, 131072, 262143} :
      \A precision \in 1 .. STORAGE_PRECISION :
        LET point == Point(lat, lon)
            hash == Encode(point, precision)
            cell == Bounds(hash)
        IN  /\ lat \in cell.lat .. cell.lat + cell.height - 1 \/ lat = 2^LatBits
            /\ lon \in cell.lon .. cell.lon + cell.width - 1
            /\ \A y \in {cell.lat - 1, cell.lat + cell.height} \intersect 0 .. 2^LatBits - 1,
                  x \in {cell.lon - 1, cell.lon + cell.width} :
                 Encode(Point(y, x), precision) \in Neighbors(hash)
=============================================================================
