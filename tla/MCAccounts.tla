----------------------------- MODULE MCAccounts -----------------------------
(***************************************************************************)
(* Small instances of Accounts for TLC: a fresh database or one that       *)
(* an earlier release left, with and without a configured admin.           *)
(***************************************************************************)
EXTENDS AccountProperties, TLC

MCNames == {"ann", "bob"}
MCPasswords == {"p", "q"}
MCUserIds == {"boot", "seed"} \cup Requests
MCBinaries == {{1, 2}}
MCSeedApplied == {{1}}
MCAdmins == {Absent, [name |-> "ann", password |-> "p"]}
MCSeedUsers == {[id |-> "seed", name |-> "ann", password |-> "p"]}
MCTokens == {"chub_t", "chub_u", "p"}
MCPrefixed == {"chub_t", "chub_u"}
MCSeedAppPasswords == {[user |-> "seed", token |-> t, lastUsed |-> Never] : t \in MCPrefixed}

Plain(op) == [op |-> op, name |-> "ann", password |-> "p", valid |-> TRUE,
              token |-> Absent, cookie |-> Absent]

Setups == {Plain("SETUP"), [Plain("SETUP") EXCEPT !.name = "bob", !.password = "q"],
           [Plain("SETUP") EXCEPT !.valid = FALSE]}

Logins == {Plain("LOGIN"), [Plain("LOGIN") EXCEPT !.password = "q"]}

WithCookies == {[Plain(op) EXCEPT !.cookie = r] : op \in {"LOGOUT", "DAV"}, r \in Requests}

WithTokens == {[Plain("DAV") EXCEPT !.token = t] : t \in {"chub_t", "p"}}

MCCalls == Setups \cup Logins \cup WithCookies \cup WithTokens

-----------------------------------------------------------------------------
(* Run "setup": two first visitors. *)
VisitorCalls == {Plain("SETUP"), [Plain("SETUP") EXCEPT !.name = "bob"]}

(* Run "idle": a login and one request with its cookie. *)
IdleCalls == {Plain("LOGIN")} \cup {[Plain("DAV") EXCEPT !.cookie = r] : r \in Requests}

Symmetry == Permutations(Requests)
=============================================================================
