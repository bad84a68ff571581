----------------------------- MODULE ViewService -----------------------------
(***************************************************************************)
(* SyncViewServiceImpl: browsing the references of a node, of a property   *)
(* node, and of a property that exists only as the id "node!name", and     *)
(* following browse paths.                                                 *)
(***************************************************************************)
EXTENDS NodeSpace

\* A browse description: node, direction, type of reference, whether its
\* subtypes count, the classes of targets wanted (none means any), and the
\* fields wanted of each reference.
Wants(d, direction) == d.direction \in {direction, "Both"}

\* The bits of the result mask; the display name goes with the browse name.
ResultFields == {"type", "forward", "class", "name", "typedef"}

\* A reference description of which only the other end is known.
Unset ==
  [type |-> Null, forward |-> FALSE, node |-> Null, class |-> "None",
   name |-> "", typedef |-> Null]

Described(s, d, r, forward) ==
  LET full == [type |-> r.type, forward |-> forward, node |-> r.node,
               class |-> s.node[r.node].class, name |-> s.node[r.node].name,
               typedef |-> s.typedef[r.node]]
  IN  [f \in DOMAIN full |-> IF f \in d.fields \cup {"node"} THEN full[f]
                                                            ELSE Unset[f]]

Description(s, d, refs, forward) ==
  LET kept == Kept(FilterReferences(s, refs, d.type, d.subtypes),
                   {r \in ToSet(refs) : \/ d.classes = {}
                                        \/ s.node[r.node].class \in d.classes})
  IN  [i \in DOMAIN kept |-> Described(s, d, kept[i], forward)]

BrowseNode(s, n, d) ==
  [status |-> "Good",
   refs   |-> (IF Wants(d, "Forward") THEN Description(s, d, s.fwd[n], TRUE)
                                      ELSE <<>>)
              \o (IF Wants(d, "Inverse") THEN Description(s, d, s.inv[n], FALSE)
                                         ELSE <<>>)]

\* What the declaration alone tells of the property's two references: neither
\* the names of their ends nor the types of those, and no mask is looked at.
PropertyType ==
  [Unset EXCEPT !.type = "HasTypeDefinition", !.forward = TRUE,
                !.node = "PropertyType", !.class = "VariableType"]

PropertyOwner(s, n) ==
  [Unset EXCEPT !.type = "HasProperty", !.node = n, !.class = s.node[n].class]

\* Mutant: the property lists its owner whatever reference type is asked for.
MutantBrowsePropertyAnyType(s, n, name, d) ==
  IF /\ d.subtypes
     /\ As(s, FindChildDeclaration(s, s.typedef[n], name), {"Variable"}) # Null
    THEN [status |-> "Good",
          refs   |-> (IF Wants(d, "Forward") THEN <<PropertyType>> ELSE <<>>)
                     \o (IF Wants(d, "Inverse") THEN <<PropertyOwner(s, n)>>
                                                ELSE <<>>)]
    ELSE [status |-> "Bad_WrongNodeId", refs |-> <<>>]

\* What the type of n declares stands for the property.
BrowseProperty(s, n, name, d) ==
  CASE ~d.subtypes -> [status |-> "Bad", refs |-> <<>>]
    [] d.subtypes /\ As(s, FindChildDeclaration(s, s.typedef[n], name),
                        {"Variable"}) = Null ->
         [status |-> "Bad_WrongNodeId", refs |-> <<>>]
    [] OTHER ->
         [status |-> "Good",
          refs   |-> (IF /\ Wants(d, "Forward")
                         /\ IsSubtypeOf(s, "HasTypeDefinition", d.type)
                        THEN <<PropertyType>> ELSE <<>>)
                     \o (IF /\ Wants(d, "Inverse")
                            /\ IsSubtypeOf(s, "HasProperty", d.type)
                           THEN <<PropertyOwner(s, n)>> ELSE <<>>)]

\* The runs' nested ids have one name at most below an existing node.
BrowseOne(s, d) ==
  LET nested == GetNestedNode(s, d.node)
  IN  CASE nested.node = Null -> [status |-> "Bad_WrongNodeId", refs |-> <<>>]
        [] nested.node # Null /\ nested.rest = <<>> ->
             BrowseNode(s, nested.node, d)
        [] OTHER -> BrowseProperty(s, nested.node, nested.rest[1], d)

-----------------------------------------------------------------------------
(* TranslateBrowsePath: as far as the elements match; the answer is Good   *)
(* once the first does, and says how many did.                             *)

Step(s, n, e) ==
  LET refs == FilterReferences(s, IF e.inverse THEN s.inv[n] ELSE s.fwd[n],
                               e.type, e.subtypes)
  IN  Named(s, [i \in DOMAIN refs |-> refs[i].node], e.name)

Follow(s, n, path) ==
  LET at[i \in 0..Len(path)] ==
        CASE i = 0 -> n
          [] i > 0 /\ at[i - 1] # Null -> Step(s, at[i - 1], path[i])
          [] OTHER -> Null
      matched == Max({i \in 0..Len(path) : at[i] # Null})
  IN  [node |-> at[matched], matched |-> matched]

TranslateBrowsePath(s, n, path) ==
  CASE n \notin Present(s) -> [status |-> "Bad_WrongNodeId", targets |-> <<>>]
    [] n \in Present(s) /\ path = <<>> ->
         [status |-> "Bad_NothingToDo", targets |-> <<>>]
    [] n \in Present(s) /\ path # <<>> /\ Step(s, n, path[1]) = Null ->
         [status |-> "Bad_BrowseNameInvalid", targets |-> <<>>]
    [] OTHER -> [status |-> "Good", targets |-> <<Follow(s, n, path)>>]
=============================================================================
