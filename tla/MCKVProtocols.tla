--------------------------- MODULE MCKVProtocols ---------------------------
(* KVProtocols on every line of at most two pairs and every line that gives
   all keywords of its type, followed by one pair that changes it. *)
EXTENDS KVProtocols

Sets == INSTANCE FiniteSetsExt

Values == {"0", "1", "2", "fine", "least", "word", ""}

Names == {"BIAS", "DARK", "FLAT", "FOCUS"}

(* Keywords of a type, one of the base class and two it does not know *)
KeysOf(t) ==
    (IF t \in Types THEN Reads(Resolver[t]) ELSE {}) \cup {"gid", "note", "epoch"}

PairsOf(t) == (KeysOf(t) \X Values)
    \cup (IF t \in Plans THEN {"imgtype"} \X Names ELSE {})

Short(t) == {<<>>} \cup {<<p>> : p \in PairsOf(t)}
    \cup {<<p, q>> : p \in PairsOf(t), q \in (KeysOf(t) \X {"fine"})}

Full(t) == Sets!FoldSet(LAMBDA k, kvs : Append(kvs, <<k, "fine">>), <<>>, KeysOf(t))

MCLines ==
    UNION {{[type |-> t, kvs |-> s] : s \in Short(t)}
           \cup {[type |-> t, kvs |-> Append(Full(t), p)] : p \in PairsOf(t)}
           : t \in Types \cup {"geosite"}}

=============================================================================
