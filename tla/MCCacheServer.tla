--------------------------- MODULE MCCacheServer ---------------------------
(* CacheServer with hashes of a character or two, and payloads at the limits:
   none, one byte, the most that a request holds, and one whose response would
   be too big.                                                               *)
EXTENDS CacheServer

MCPrefix == <<"p">>
MCExisting == <<"b">>
DistinctHashes  == {<<"a">>, <<"b">>}
CollidingHashes == {<<"a">>, <<"p", "a">>}

MCPayloads == {"none", "byte", "most", "huge"}
MCLength == [none |-> 0, byte |-> 1, most |-> 19956, huge |-> 20345]

Fixed == Routes \ StoreRoutes

(* Gets and the like, long enough and a byte short *)
FixedRequests ==
  {[route |-> r, hash |-> h, payload |-> "none", claimed |-> 0, size |-> n] :
     r \in Fixed, h \in Hashes, n \in {3, 4, 191, 192, 255, 256}}

(* Stores with consistent sizes, with a byte more claimed than is there, and
   without room for the claim                                                *)
Store(r, h, p, extra, n) ==
  [route |-> r, hash |-> h, payload |-> p, claimed |-> Length[p] + extra, size |-> n]
StoreRequests ==
  UNION {{Store(r, h, p, 0, 260 + Length[p]), Store(r, h, p, 0, 259)} :
           r \in StoreRoutes, h \in Hashes, p \in Payloads}
    \cup {Store(r, h, p, 1, 260 + Length[p]) :
           r \in StoreRoutes, h \in Hashes, p \in NonEmpty}

UnknownRequests == {[route |-> "unknown", hash |-> h, payload |-> "none",
                     claimed |-> 0, size |-> 0] : h \in Hashes}

MCRequests ==
  {r \in FixedRequests : r.size \in {RequestSize[r.route], RequestSize[r.route] - 1}}
    \cup StoreRequests \cup UnknownRequests
=============================================================================
