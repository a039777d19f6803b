------------------------------ MODULE Responses ------------------------------
(***************************************************************************)
(* The response to a request as a function of the request, the fixtures    *)
(* as they were loaded and the ID minted for it: what is copied, what the  *)
(* path names, which other mentions of old IDs are renamed, and what a     *)
(* POST reflects, in closed form, without passes, recursion or order.      *)
(***************************************************************************)
EXTENDS Fixtures

(* The objects that lead from root, object by object, to those in next.    *)
Closure(root, next) ==
    {m \in Map : \A S \in SUBSET Map :
        root \in S /\ (\A n \in S : next[n] \subseteq S) => m \in S}

(* The objects that those of a tree refer to.                              *)
Refers(tree) == [m \in Map |-> {tree[m][k] : k \in Key} \cap Map]

(* The objects that are copied for r...                                    *)
Copied == [r \in Request |->
    Closure(r.root,
            [m \in Map |-> {Plain(r, m, k) : k \in {j \in Key : Copies(r, m, j)}} \cap Map])]

(* ... what is found in them, and in those that are handed out...          *)
Raw == [r \in Request |-> [m \in Map |-> [k \in Key |->
    IF m \notin Copied[r] THEN Fixture[m][k]
    ELSE IF Kind[m][k] = "none" THEN None ELSE Plain(r, m, k)]]]

(* ... and all that the response is made of.                               *)
Shown == [r \in Request |-> Closure(r.root, Refers(Raw[r]))]

(* The ID of the root: that of the path, else one minted for it.           *)
ID == Text \cup {None}

Primary(r, minted) ==
    IF r.primary # None THEN r.primary
    ELSE IF Raw[r][r.root][IdKey] \in Text THEN minted ELSE None

ByName(r, names) == {i \in DOMAIN r.secondary : r.secondary[i].name \in names}

(* The keys under which the object m is found.                             *)
Under(r, m) ==
    {k \in Key : \E p \in Shown[r] :
        Raw[r][p][k] = m /\ Kind[p][k] \notin {"list", "array"}}

(* The path parameters that claim field k of m as an ID of theirs: by the  *)
(* name of the field, or an `id` by the name of the resource and by the    *)
(* key it is found under, which comes first.                               *)
Claims == [r \in Request |-> [m \in Map |-> [k \in Key |->
    IF Raw[r][m][k] \notin Text \/ (m = r.root /\ k = IdKey) THEN {}
    ELSE IF k # IdKey THEN ByName(r, {k})
    ELSE ByName(r, Under(r, m) \cup {ObjectName[m]})]]]

Claimed(r, m, k) ==
    LET nearest == ByName(r, Under(r, m))
    IN  r.secondary[CHOOSE i \in Claims[r][m][k] :
                      (k = IdKey /\ nearest # {}) => i \in nearest].id

Named == [r \in Request |-> [p \in ID |-> [m \in Map |-> [k \in Key |->
    IF m = r.root /\ k = IdKey /\ Raw[r][m][k] \in Text /\ p # None THEN p
    ELSE IF Claims[r][m][k] # {} THEN Claimed(r, m, k)
    ELSE Raw[r][m][k]]]]]

(* The IDs that parameter i takes the place of, in some of the fields...   *)
OldIn(r, i, fields) ==
    {Raw[r][f[1]][f[2]] : f \in {x \in fields : i \in Claims[r][x[1]][x[2]]}} \ {Empty}

(* ... and in all of the response.                                         *)
Old == [r \in Request |-> [i \in DOMAIN r.secondary |-> OldIn(r, i, Shown[r] \X Key)]]

(* An old ID that is still there becomes the new one.                      *)
Rename(r, p, t) ==
    LET stale == {i \in DOMAIN r.secondary : t \in Old[r][i]}
    IN  IF t \notin Text THEN t
        ELSE IF t = Raw[r][r.root][IdKey] /\ p # None THEN p
        ELSE IF stale # {} THEN r.secondary[CHOOSE i \in stale : \A j \in stale : i <= j].id
        ELSE t

Renamed == [r \in Request |-> [p \in ID |-> [m \in Map |-> [k \in Key |->
    Rename(r, p, Named[r][p][m][k])]]]]

(* A POST reflects its parameters, as far as objects with Properties are   *)
(* nested in both.                                                         *)
Reflects(r, m, k) == r.method = "POST" /\ <<m, k>> \in DOMAIN r.data

Nests(r, m, k) ==
    Reflects(r, m, k) /\ r.data[<<m, k>>] = Nested /\ Kind[m][k] = "object"

Asked == [r \in Request |->
    Closure(r.root,
            [m \in Map |-> {Raw[r][m][k] : k \in {j \in Key : Nests(r, m, j)}} \cap Map])]

Final == [r \in Request |-> [p \in ID |-> [m \in Map |-> [k \in Key |->
    IF /\ m \in Asked[r] /\ Reflects(r, m, k) /\ r.data[<<m, k>>] \in Text
       /\ Kind[m][k] \in {"string", "expandable"} /\ Renamed[r][p][m][k] # None
    THEN r.data[<<m, k>>]
    ELSE Renamed[r][p][m][k]]]]]

(* The objects that are left of it.                                        *)
Left == [r \in Request |-> [p \in ID |-> Closure(r.root, Refers(Final[r][p]))]]

(* The response to r when `minted` is the ID generated for it, if one is:  *)
(* an object for every map it contains.                                    *)
Ideal(r, minted) ==
    LET p == Primary(r, minted)
    IN  [m \in Map |-> [k \in Key |-> IF m \in Left[r][p] THEN Final[r][p][m][k] ELSE None]]
=============================================================================
