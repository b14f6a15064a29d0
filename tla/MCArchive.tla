------------------------------ MODULE MCArchive -------------------------------
(* Small instances of Archive for TLC.                                        *)
EXTENDS Archive, TLC

CONSTANTS walk, replay,           \* sessions: a daily walk and an archive replay
          folder, call,           \* notice numbers
          prat, garriga,          \* buyers
          a, b, c, d, e, f        \* hashes

MCNatives   == {folder, call}
MCBuyers    == {prat, garriga}
MCHashes    == {a, b, c, d, e, f}
MCFacts     == {"forthcoming", "open", "moved", "awarded"}
MCReadings  == {"net", "gross"}
MCTaxMoves  == {<<"gross", "net">>}
MCStatusMoves == {<<"forthcoming", "open">>}
MCLinks     == {"ted1", "ted2"}
MCLocal     == {folder}

(* An entry of the folder: everything not named here is not stated.           *)
Entry(hash, facts, stamp) ==
  [hash |-> hash, native |-> folder, buyer |-> prat, facts |-> facts,
   reading |-> "net", deadline |-> None, published |-> None, stamp |-> stamp,
   noted |-> None, link |-> None]

(* The call, an amendment of the same instant, the award a day later.               *)
Call      == [Entry(a, "open", 4) EXCEPT !.published = 1]
Amended   == [Entry(b, "moved", 4) EXCEPT !.published = 1]
Award     == [Entry(c, "awarded", 8) EXCEPT !.deadline = 2]
(* The call stamped again with nothing moved but its attributes.              *)
Restamped == [Entry(d, "open", 6) EXCEPT !.published = 1, !.noted = 1, !.link = "ted1"]
(* Another body's notice under the same number.                               *)
Foreign   == [Entry(e, "open", 5) EXCEPT !.buyer = garriga, !.published = 1]
(* A notice of another source.                                                *)
Elsewhere == [Entry(f, "open", None) EXCEPT !.native = call, !.published = 1]

(* A record the mapper cannot read.                                           *)
Broken    == Entry(d, "open", 4)

(* Two sessions deliver overlapping windows of two notices, whose links they  *)
(* write in any order.                                                        *)
Linked    == [Call EXCEPT !.link = "ted1"]
Relinked  == [Amended EXCEPT !.link = "ted2"]
RaceFeed  == walk :> {Linked, Award, Foreign, Broken} @@ replay :> {Relinked, Foreign}

(* One session, long runs of legal records: an entry the older mapper read    *)
(* (no stamp, the value with tax, another status), its re-reading, and what   *)
(* follows.                                                                   *)
Legacy    == [Entry(e, "forthcoming", None) EXCEPT !.reading = "gross", !.published = 1]
Award9    == [Entry(c, "awarded", 8) EXCEPT !.deadline = 2, !.link = "ted2"]
Call2     == [Call EXCEPT !.link = "ted2"]
LongFeed  == walk :> {Legacy, Call2, Amended, Award9, Restamped, Elsewhere}
==============================================================================
