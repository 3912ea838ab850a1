-------------------------- MODULE MCPrivateAnswer --------------------------
(* Two passages and one out of reach.  A question may ask for a contact,   *)
(* which a search finds, and an amount, which it may miss; the engine may  *)
(* refuse every prompt, or take one passage or two.                        *)
EXTENDS PrivateAnswer

AskedParts == SUBSET {"contact", "amount"}
Carriers(parts) ==
  {c \in [parts -> Passage] : "contact" \in parts => c["contact"] <= MaxHits}
MCQuestions ==
  UNION {[asked : {parts}, carrier : Carriers(parts), shape : Shapes,
          window : 0 .. MaxHits, extract : {None, "exact", "audited"}] : parts \in AskedParts}
=============================================================================
