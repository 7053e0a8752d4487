---------------------------- MODULE MCProfileStore ----------------------------
(***************************************************************************)
(* Two slots: an edit of one of them, and a publication that replaces both *)
(* and changes the other.  And the bodies themselves: two named slots, one *)
(* that no editor names, two texts.                                        *)
(***************************************************************************)
EXTENDS BodyReference

CONSTANTS name, bio, e1, p1

MCMinted == [s \in Slots |-> "old"]
MCEdit == [e \in {e1} |-> [slot |-> bio, value |-> "new"]]
MCProfile == [p \in {p1} |-> [s \in Slots |-> IF s = name THEN "new" ELSE "old"]]
MCNoProfile == [p \in {} |-> MCMinted]
====================
