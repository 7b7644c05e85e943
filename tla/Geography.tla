------------------------------- MODULE Geography -------------------------------
(***************************************************************************)
(* The geographic engine (engine/geo.py): which wilaya a point lies in, by *)
(* ray casting against the boundary rings, and which one is nearest, by    *)
(* the centroids of their largest rings.  Coordinates are integers; every  *)
(* quotient of the code is compared here by cross-multiplication.          *)
(***************************************************************************)
EXTENDS Integers, Sequences, FiniteSets, Functions

CONSTANTS Wilaya,     \* the names of the catalogue
          Catalogue,  \* their order in the dataset: a sequence of Wilaya
          Rings,      \* wilaya -> its exterior rings, closed sequences of points
          Nowhere     \* no wilaya

ASSUME GeographyAssumption ==
  /\ Nowhere \notin Wilaya
  /\ Catalogue \in Seq(Wilaya)
  /\ {Catalogue[i] : i \in DOMAIN Catalogue} = Wilaya
  /\ \A w \in Wilaya : Rings[w] # {} /\ \A r \in Rings[w] : r[1] = r[Len(r)]

\* A place, and a vertex of a ring: [lon, lat].
Point(lon, lat) == [lon |-> lon, lat |-> lat]

Sides(ring) == {<<ring[i], ring[i + 1]>> : i \in 1..(Len(ring) - 1)}

\* (yi > lat) != (yj > lat): of its two ends a side includes the lower one.
Spans(a, b, lat) == (a.lat > lat) # (b.lat > lat)

\* The side a-b crosses the ray that leaves the point p eastwards.
Crosses(a, b, p) ==
  /\ Spans(a, b, p.lat)
  /\ LET rise == b.lat - a.lat
         turn == (b.lon - a.lon) * (p.lat - a.lat) - (p.lon - a.lon) * rise
     IN IF rise > 0 THEN turn > 0 ELSE turn < 0

\* _point_in_ring: the odd-even rule.
InRing(p, ring) == Cardinality({s \in Sides(ring) : Crosses(s[1], s[2], p)}) % 2 = 1

Contains(w, p) == \E ring \in Rings[w] : InRing(p, ring)

\* lookup: the first wilaya of the dataset that contains the point.
Lookup(p) ==
  LET hits == {i \in DOMAIN Catalogue : Contains(Catalogue[i], p)}
  IN IF hits = {} THEN Nowhere
     ELSE Catalogue[CHOOSE i \in hits : \A j \in hits : i <= j]

-----------------------------------------------------------------------------
\* _centroid.

Along(ring, term(_, _)) ==
  FoldFunction(+, 0, [i \in 1..(Len(ring) - 1) |-> term(ring[i], ring[i + 1])])

Turn(a, b) == a.lon * b.lat - b.lon * a.lat

\* Twice the signed area of a ring.
Area(ring) == Along(ring, Turn)

Size(n) == IF n < 0 THEN 0 - n ELSE n

LargestRing(w) ==
  CHOOSE r \in Rings[w] : \A s \in Rings[w] : Size(Area(r)) >= Size(Area(s))

\* The squared distance of p from the centroid of w, as a fraction.
Distance(w, p) ==
  LET ring == LargestRing(w)
      by   == 3 * Area(ring)
      lon  == Along(ring, LAMBDA a, b : (a.lon + b.lon) * Turn(a, b))
      lat  == Along(ring, LAMBDA a, b : (a.lat + b.lat) * Turn(a, b))
      x    == lon - by * p.lon
      y    == lat - by * p.lat
  IN [over |-> x * x + y * y, under |-> by * by]

Nearer(c, d) == c.over * d.under < d.over * c.under

\* nearest_wilaya: of those at the smallest distance, the first of the dataset.
NearestWilaya(p) ==
  Catalogue[CHOOSE i \in DOMAIN Catalogue :
              /\ \A j \in DOMAIN Catalogue :
                   ~Nearer(Distance(Catalogue[j], p), Distance(Catalogue[i], p))
              /\ \A j \in 1..(i - 1) :
                   Nearer(Distance(Catalogue[i], p), Distance(Catalogue[j], p))]
=============================================================================
