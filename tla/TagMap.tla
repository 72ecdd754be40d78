-------------------------------- MODULE TagMap --------------------------------
(***************************************************************************)
(* What the shadow memory of the 64-bit libdft with custom tags promises: a   *)
(* tag for every byte, changed one byte at a time by the operations of the    *)
(* tagmap API. A region is the bytes of a page or of a table of the           *)
(* directory: threads that allocate the same one at the same time may make    *)
(* it clear again.                                                           *)
(***************************************************************************)
CONSTANTS Bytes, Tags, Cleared,
          Regions      \* sets of bytes that share a table or a page

VARIABLE tags          \* the tag of every byte

Init == tags = [b \in Bytes |-> Cleared]

Assign(b, tag) == tags' = [tags EXCEPT ![b] = tag]
Forget(region) == tags' = [b \in Bytes |-> IF b \in region THEN Cleared ELSE tags[b]]

Next ==
    \/ \E b \in Bytes, tag \in Tags : Assign(b, tag)
    \/ \E region \in Regions : Forget(region)

Spec == Init /\ [][Next]_tags
===============================================================================
