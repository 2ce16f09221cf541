------------------------------ MODULE MCUploads ------------------------------
(* Small instances of AvatarUpload and of AlbumMedia for TLC, in one run: a  *)
(* behaviour follows the avatars of one member, or one photo, or several     *)
(* photos, of the founder of an album.                                       *)
EXTENDS AvatarUpload, TLC

CONSTANTS Users, MaxEpoch, MaxAlbumMembers, MaxInflight, MediaIds, Assets, MaxRes,
          FirstPhoto   \* the photo that is followed alone

\* The assumptions of AlbumKeys and AlbumMedia on their constants.
ASSUME PhotoKeys == /\ IsFiniteSet(Users) /\ MaxEpoch \in Nat
                    /\ MaxAlbumMembers \in Nat \ {0} /\ MaxInflight \in Nat
ASSUME PhotoMedia == "blob" \in Assets /\ MaxRes \in Nat

VARIABLES side,   \* what a behaviour follows
          album, account, role, revoked, cur, wraps, rotationRequired, consented,
          revoking, holders, media, nextRes, gen, swept, audience,
          photoRequests, photoUrls, photos, photoQueue, photoCleaning

\* AlbumMedia, by way of its proofs: what they show of it holds of the photos.
Photos == INSTANCE AlbumMediaProofs
          WITH requests <- photoRequests, urls <- photoUrls, objects <- photos,
               queue <- photoQueue, cleaning <- photoCleaning

photoVars == <<album, account, role, revoked, cur, wraps, rotationRequired,
               consented, revoking, holders, media, nextRes, gen, swept, audience,
               photoRequests, photoUrls, photos, photoQueue, photoCleaning>>

SidedInit == Init /\ Photos!Init /\ Photos!MediaInit /\ side \in {"avatar", "photo", "order"}

AvatarStep == side = "avatar" /\ Next /\ UNCHANGED <<photoVars, side>>

\* One photo with all that may become of it, or several of which none is withdrawn.
PhotoStep ==
    /\ side \in {"photo", "order"} /\ Photos!MediaNext /\ UNCHANGED <<vars, side>>
    /\ side = "photo" => \A q \in photoRequests' : q.m = FirstPhoto
    /\ side = "order" => photoQueue' = {}

SidedSpec == SidedInit /\ [][AvatarStep \/ PhotoStep]_<<vars, photoVars, side>>

\* Types of avatars and of photos; two published photos never share a place in
\* the album's listing (media_repo.go:156).
UploadTypeOK == TypeOK /\ Photos!MediaTypeOK

\* A published photo keeps the objects its row claims (media_service.go:205).
ConfirmedStored == Photos!ConfirmedStored

\* What the stale sweep removed never comes back (media_service.go:464).
SweptStaysClean == Photos!SweptStaysClean

DataSymmetry == Permutations(Data)
=============================================================================
