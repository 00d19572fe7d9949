------------------------------- MODULE OtaImage -------------------------------
(***************************************************************************)
(* What ota_client promises the boot loader: the update partition takes    *)
(* one image at a time, from its first chunk on and in order, and is       *)
(* selected for booting once it holds all of a sound image, for good.      *)
(***************************************************************************)
EXTENDS Naturals

CONSTANTS Sessions, NoSession, Chunks, Sound

VARIABLES
  image,     \* the session being received or selected
  contents,  \* what the partition holds of it
  selected   \* esp_ota_set_boot_partition() has been called

vars == << image, contents, selected >>

Prefix(s, n) == [p \in 0 .. n - 1 |-> << s, p >>]

Begin(s) ==
  /\ image = NoSession
  /\ image' = s
  /\ contents' = Prefix(s, 0)
  /\ UNCHANGED selected

Extend(n) ==
  /\ image \in Sessions
  /\ DOMAIN contents \subseteq 0 .. n - 1
  /\ contents' = Prefix(image, n)
  /\ UNCHANGED << image, selected >>

Select ==
  /\ image \in Sound
  /\ contents = Prefix(image, Chunks[image])
  /\ selected' = TRUE
  /\ UNCHANGED << image, contents >>

Discard ==
  /\ image \in Sessions /\ ~ selected
  /\ image' = NoSession
  /\ contents' = Prefix(NoSession, 0)
  /\ UNCHANGED selected

Init == image = NoSession /\ contents = Prefix(NoSession, 0) /\ selected = FALSE
Next ==
  \/ \E s \in Sessions : Begin(s) \/ \E n \in 1 .. Chunks[s] : image = s /\ Extend(n)
  \/ Select \/ Discard
Spec == Init /\ [][Next]_vars
=============================================================================
