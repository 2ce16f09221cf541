----------------------------- MODULE MCAlbumKeys -----------------------------
(* Small instances of AlbumKeys for TLC.  A leads-to is checked, so the       *)
(* accounts cannot be declared symmetric; instead the instance fixes which    *)
(* account creates the album, and bounds which accounts are deleted.          *)
EXTENDS AlbumKeys

CONSTANTS Founder,   \* the account that creates the album
          Deleters   \* accounts whose owner may delete them

FoundedByFounder == album = "none" /\ album' = "live" => role'[Founder] = "admin"
OthersStayLive == \A u \in Users \ Deleters : account'[u] = "live"

FoundedSpec ==
    /\ Init
    /\ [][Next /\ FoundedByFounder /\ OthersStayLive]_keyVars
    /\ \A u \in Users : WF_keyVars(DeletionJob(u))
=============================================================================
