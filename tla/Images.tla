------------------------------- MODULE Images -------------------------------
(***************************************************************************)
(* graphics::ImageManager and its images (el/graphics/image_manager.cc)    *)
(* Image objects count the references to an ImageRep, and the last one     *)
(* takes the bitmap fragment out of the manager, unless that is gone by    *)
(* then.  What a file is known by is the hash of its name; a fragment is   *)
(* the hash of the name it was loaded from.                                *)
(***************************************************************************)
EXTENDS Naturals, FiniteSets

CONSTANTS none,          \* nullptr
          Image,         \* the Image objects of the program and of image boxes
          Returned,      \* the Image that GetImage returns
          Rep,           \* addresses of ImageReps
          Requested,     \* the files asked for
          Hash, Dst      \* of a file: util::hash, and GetDstDPIFilename (itself without NeedConversion)

File == DOMAIN Hash
Key == {Hash[f] : f \in File}

(* managed: whether image_manager is set *)
ImageRep == [ref_count : Nat, hash_key : Key, managed : BOOLEAN, fragment : Key \cup {none}]

(* The fragments that a file with the hash k may be shown by *)
Sources(k) == {Hash[f] : f \in {g \in Requested : Hash[g] = k}} \cup {Hash[Dst[f]] : f \in {g \in Requested : Hash[g] = k}}

(* No file is asked for that is another one's for the destination DPI: that
   both have one fragment, which goes with the first of them, is a finding. *)
ASSUME ImagesAssumption ==
  /\ IsFiniteSet(Image) /\ Returned \notin Image
  /\ none \notin Rep \cup Key \cup ImageRep
  /\ Requested \subseteq File /\ Dst \in [Requested -> File]
  /\ \A f, g \in Requested : Hash[f] # Hash[g] => Sources(Hash[f]) \cap Sources(Hash[g]) = {}

VARIABLE im     \* [alive, reps, hash, loaded, held]: whether there is a manager; what is at the addresses;
                \* m_image_rep_hash; the fragments of m_frag_manager; what each Image refers to

InitImages ==
  im = [alive |-> TRUE, reps |-> [r \in Rep |-> none], hash |-> [k \in Key |-> none], loaded |-> {},
        held |-> [i \in Image \cup {Returned} |-> none]]

-----------------------------------------------------------------------------
IncRef(s, r) == [s EXCEPT !.reps[r].ref_count = @ + 1]

RemoveRep(s, r) ==
  [s EXCEPT !.loaded = @ \ {s.reps[r].fragment}, !.hash[s.reps[r].hash_key] = none]

DecRef(s, r) ==
  IF s.reps[r].ref_count > 1 THEN [s EXCEPT !.reps[r].ref_count = @ - 1]
  ELSE [(IF s.reps[r].managed THEN RemoveRep(s, r) ELSE s) EXCEPT !.reps[r] = none]

(* Image::Image *)
Hold(s, i, r) == [(IF r = none THEN s ELSE IncRef(s, r)) EXCEPT !.held[i] = r]

(* Image::~Image *)
Drop(s, i) == [(IF s.held[i] = none THEN s ELSE DecRef(s, s.held[i])) EXCEPT !.held[i] = none]

(* Mutant: counts without a look at what the image refers to already *)
set_image_rep_counted(s, i, r) == Hold(s, i, r)

set_image_rep(s, i, r) == IF s.held[i] = r THEN s ELSE Hold(Drop(s, i), i, r)

(* What is loaded stays, whatever is on the disk. *)
FragmentOf(s, f, disk) == IF Hash[f] \in s.loaded \/ f \in disk THEN Hash[f] ELSE none

LoadFragment(s, f, disk) ==
  LET converted == FragmentOf(s, Dst[f], disk)
  IN  IF converted # none THEN converted ELSE FragmentOf(s, f, disk)

(* ImageRep::ImageRep *)
NewRep(k, fragment) == [ref_count |-> 0, hash_key |-> k, managed |-> TRUE, fragment |-> fragment]

(* The image returned refers to r if the file has to be loaded. *)
GetImage(s, f, disk, r) ==
  LET k == Hash[f]
      fragment == LoadFragment(s, f, disk)
  IN  IF s.hash[k] # none THEN Hold(s, Returned, s.hash[k])
      ELSE IF fragment = none THEN s
      ELSE Hold([s EXCEPT !.loaded = @ \cup {fragment}, !.reps[r] = NewRep(k, fragment), !.hash[k] = r], Returned, r)

(* ImageBox::set_image of a file name: the image returned goes at the end. *)
SetImage(i, f, disk, r) ==
  /\ im.alive /\ im.reps[r] = none
  /\ im' = LET got == GetImage(im, f, disk, r) IN Drop(set_image_rep(got, i, got.held[Returned]), Returned)

(* Image::operator=, of an empty one the constructor *)
Assign(i, j) == im' = set_image_rep(im, i, im.held[j])

Reset(i) == im' = Drop(im, i)

(* ImageManager::~ImageManager: the images stay, and show nothing. *)
Shutdown ==
  /\ im.alive
  /\ im' = [im EXCEPT !.alive = FALSE, !.loaded = {}, !.hash = [k \in Key |-> none],
                      !.reps = [r \in Rep |-> IF \E k \in Key : im.hash[k] = r
                                              THEN [im.reps[r] EXCEPT !.managed = FALSE, !.fragment = none]
                                              ELSE im.reps[r]]]

Initialize == ~im.alive /\ im' = [im EXCEPT !.alive = TRUE]

ImagesNext ==
  \/ \E i \in Image, f \in Requested, disk \in SUBSET File, r \in Rep : SetImage(i, f, disk, r)
  \/ \E i, j \in Image : Assign(i, j)
  \/ \E i \in Image : Reset(i)
  \/ Shutdown
  \/ Initialize

ImagesSpec == InitImages /\ [][ImagesNext]_im

-----------------------------------------------------------------------------
Holders(s, r) == {i \in DOMAIN s.held : s.held[i] = r}

(* A rep lives as long as some image refers to it, and counts those that do. *)
Counted(s) ==
  \A r \in Rep : IF s.reps[r] = none THEN Holders(s, r) = {}
                 ELSE s.reps[r].ref_count = Cardinality(Holders(s, r)) /\ s.reps[r].ref_count > 0

(* The manager finds exactly the reps it made, each by its name. *)
Found(s) ==
  /\ \A k \in Key : s.hash[k] # none => s.alive /\ s.reps[s.hash[k]] # none /\ s.reps[s.hash[k]].hash_key = k
                                                /\ s.reps[s.hash[k]].managed
  /\ \A r \in Rep : s.reps[r] # none /\ s.reps[r].managed => s.hash[s.reps[r].hash_key] = r

(* The fragments loaded are those of reps, which all have theirs until the manager goes. *)
Kept(s) ==
  /\ \A r \in Rep : s.reps[r] # none =>
       IF s.reps[r].managed THEN s.reps[r].fragment \in s.loaded ELSE s.reps[r].fragment = none
  /\ \A k \in s.loaded : \E r \in Rep : s.reps[r] # none /\ s.reps[r].fragment = k

(* An image keeps its bitmap loaded as long as there are Image objects for it and a manager, and no
   longer; what outlives the manager shows nothing (image_manager.h:43-46, 87-88). *)
ImagesAgree == Counted(im) /\ Found(im) /\ Kept(im)
=============================================================================
