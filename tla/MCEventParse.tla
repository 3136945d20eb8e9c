---------------------------- MODULE MCEventParse ----------------------------
(***************************************************************************)
(* An instance of EventParse: the event E has a unit mask, one that stands *)
(* for it and a modifier, one that stands for this one and a modifier (as  *)
(* snb_l1d_pend_miss has), a unit mask and a modifier of the same name,    *)
(* and an integer; F has a modifier only, on a PMU without raw unit masks; *)
(* A is another name for E with V, with fewer entries of its own, and B     *)
(* names an event that does not exist.                                     *)
(***************************************************************************)
EXTENDS EventParse, FiniteSets

Tok(n, v) == [name |-> n, val |-> v]
MCEvents == {"E", "F", "A", "B"}
MCPattrs ==
    LET umask(n, equiv) == [name |-> n, type |-> "UMASK", equiv |-> equiv]
        mod(n, t) == [name |-> n, type |-> t, equiv |-> <<>>]
        e == <<umask("U", <<>>), umask("V", <<Tok("U", NoVal), Tok("c", "1")>>),
               umask("W", <<Tok("V", NoVal), Tok("i", "y")>>), umask("i", <<>>), mod("i", "MOD_BOOL"), mod("c", "MOD_INTEGER")>>
        f == <<mod("c", "MOD_INTEGER")>>
    IN  [x \in MCEvents |-> IF x \in {"F", "A"} THEN f ELSE e]
MCEquivEvent == [x \in MCEvents |-> IF x = "A" THEN "E" ELSE IF x = "B" THEN "X" ELSE NoEquiv]
MCEquivAttrs == [x \in MCEvents |-> IF x = "A" THEN <<Tok("V", NoVal)>> ELSE <<>>]
MCRawUmask == {"E", "A", "B"}
MCNames == {"U", "V", "W", "i", "c", "zz"}
MCRawNames == {"0x1", "0xz"}
MCBadRaw == {"0xz"}
MCTokens ==
    {Tok(n, NoVal) : n \in MCNames \cup MCRawNames}
    \cup {Tok("0x1", "1"), Tok("U", "1"), Tok("V", "1"), Tok("i", "y"), Tok("i", "n"), Tok("i", "2"),
          Tok("c", ""), Tok("c", "y"), Tok("c", "1"), Tok("c", "2")}
============================================================================
