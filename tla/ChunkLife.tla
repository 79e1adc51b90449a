------------------------------ MODULE ChunkLife ------------------------------
(***************************************************************************)
(* What the sealing protocol promises for the audio of a chunk: it is      *)
(* staged, published under its final name and registered; until it is      *)
(* registered a failure may stage it again and an outage may take back     *)
(* what was not yet on the disk; only staged audio is ever deleted; and    *)
(* once registered it stays as it was registered, whatever happens.        *)
(***************************************************************************)
CONSTANTS Chunks, Claims

VARIABLE life    \* per chunk: the request it is registered with, or how far it got

Unregistered == {"unborn", "staged", "published"}

LifeTypeOK == life \in [Chunks -> Unregistered \cup {"lost"} \cup Claims]

LifeInit == life = [c \in Chunks |-> "unborn"]

Move(c, from, to) == life[c] = from /\ life' = [life EXCEPT ![c] = to]

Outage ==
    /\ life' \in [Chunks -> Unregistered \cup {"lost"} \cup Claims]
    /\ \A c \in Chunks : \/ life'[c] = life[c]
                         \/ {life[c], life'[c]} \subseteq Unregistered

LifeNext ==
    \/ \E c \in Chunks :
         \/ Move(c, "unborn", "staged")
         \/ Move(c, "staged", "published")
         \/ Move(c, "published", "staged")
         \/ Move(c, "staged", "lost")
         \/ \E r \in Claims : Move(c, "published", r)
    \/ Outage

LifeSpec == LifeInit /\ [][LifeNext]_life
=============================================================================
