------------------------------ MODULE AdminAccess ------------------------------
(***************************************************************************)
(* Which screen of the staff suite a profile comes to see: the matcher of  *)
(* permissions (perms.ts), the navigation that is filtered with it         *)
(* (AdminApp.tsx), the view kept by nav.ts and the gate in App.tsx.        *)
(* A permission is a pair of an area and an action.                        *)
(***************************************************************************)
EXTENDS Naturals, Sequences, FiniteSets

CONSTANTS
    Profiles,   \* the sets of permissions that an account may have
    None        \* nothing is displayed

Wildcard == <<"*", "*">>
Manage(area) == <<area, "manage">>
Every(area) == <<area, "*">>

\* The catalog.
ADMIN_PERMISSIONS ==
    ({"servers", "nodes", "users", "billing", "catalog", "content", "support"} \X {"read", "manage"})
        \cup ({"dashboard", "audit"} \X {"read"})
        \cup ({"locations", "payments", "settings", "roles"} \X {"manage"})
        \cup ({"users"} \X {"create", "suspend", "delete", "credit", "password", "verify-email"})
        \cup {<<"billing", "refund">>}

HasPermission(perms, required) ==
    \/ Wildcard \in perms \/ required \in perms
    \/ Every(required[1]) \in perms
    \/ required # Manage(required[1]) /\ Manage(required[1]) \in perms

IsStaffPerms(perms) == perms # {}

-----------------------------------------------------------------------------
\* The navigation in its order: the screens and what each asks for.
NAV == <<
    <<"dashboard", <<"dashboard", "read">>>>,
    <<"servers", <<"servers", "read">>>>,
    <<"users", <<"users", "read">>>>,
    <<"nodes", <<"nodes", "read">>>>, <<"locations", Manage("locations")>>,
    <<"database-hosts", Manage("nodes")>>, <<"templates", <<"catalog", "read">>>>,
    <<"support", <<"support", "read">>>>, <<"audit", <<"audit", "read">>>>,
    <<"invoices", <<"billing", "read">>>>, <<"payments", Manage("payments")>>,
    <<"growth", <<"billing", "read">>>>, <<"coupons", Manage("billing")>>,
    <<"gift-cards", Manage("billing")>>, <<"products", <<"catalog", "read">>>>,
    <<"content", <<"content", "read">>>>, <<"team", Manage("content")>>,
    <<"roles", Manage("roles")>>, <<"settings", Manage("settings")>> >>

AdminScreen == {NAV[i][1] : i \in DOMAIN NAV}
PermOf(screen) == LET i == CHOOSE j \in DOMAIN NAV : NAV[j][1] = screen IN NAV[i][2]

\* The component that shows a screen; two of them are shown for two screens.
AdminScreenView(screen) ==
    CASE screen = "payments"  -> "invoices"
      [] screen = "locations" -> "nodes"
      [] OTHER -> screen

\* What the panel asks of the first request a component makes; its other screens ask what their
\* item in the navigation does.
Needs(component) ==
    CASE component = "invoices" -> <<"billing", "read">>
      [] component = "nodes"    -> <<"nodes", "read">>
      [] OTHER -> PermOf(component)

-----------------------------------------------------------------------------
VARIABLES
    signedIn, perms,      \* permissions of the profile that the store keeps
    view,       \* "customer" or "admin"
    adminScreen

vars == <<signedIn, perms, view, adminScreen>>

\* The places in the navigation of the items a profile sees; their screens; the first of them.
Items(p) == {i \in DOMAIN NAV : HasPermission(p, NAV[i][2])}
Permitted(p) == {NAV[i][1] : i \in Items(p)}
FirstOf(p) == NAV[CHOOSE i \in Items(p) : \A j \in Items(p) : i <= j][1]

\* The staff suite is shown to staff only, even when an old view lingers.
InSuite == signedIn /\ IsStaffPerms(perms) /\ view = "admin"
OnDisplay == IF InSuite /\ adminScreen \in Permitted(perms) THEN AdminScreenView(adminScreen) ELSE None

Init ==
    /\ signedIn = TRUE /\ perms \in Profiles
    /\ view = "customer" /\ adminScreen = "servers"

\* The shield in the header of the servers screen, for staff; and Back to my servers.
SetView(v) ==
    /\ signedIn /\ v # view /\ (v = "admin" => IsStaffPerms(perms))
    /\ view' = v /\ UNCHANGED <<signedIn, perms, adminScreen>>

GoAdmin(screen) ==
    /\ InSuite /\ screen \in Permitted(perms) /\ screen # adminScreen
    /\ view' = "admin" /\ adminScreen' = screen /\ UNCHANGED <<signedIn, perms>>

\* The effect jumps to the first item of all, permitted or not.
JumpBlindly ==
    /\ InSuite /\ adminScreen \notin Permitted(perms) /\ Items(perms) # {}
    /\ view' = "admin" /\ adminScreen' = NAV[1][1] /\ UNCHANGED <<signedIn, perms>>

\* The effect: the screen is not one of the profile's, so the first that is.
Jump ==
    /\ InSuite /\ adminScreen \notin Permitted(perms) /\ Items(perms) # {}
    /\ view' = "admin" /\ adminScreen' = FirstOf(perms) /\ UNCHANGED <<signedIn, perms>>

\* The profile is read anew and the roles were changed meanwhile.
Recheck(p) ==
    /\ signedIn /\ perms' = p /\ UNCHANGED <<signedIn, view, adminScreen>>

\* Sign-out and sign-in leave the view and the screen as they are.
SignOut == signedIn /\ signedIn' = FALSE /\ UNCHANGED <<perms, view, adminScreen>>

SignIn(p) ==
    /\ ~signedIn /\ signedIn' = TRUE /\ perms' = p
    /\ UNCHANGED <<view, adminScreen>>

Next ==
    \/ \E v \in {"customer", "admin"} : SetView(v)
    \/ \E screen \in AdminScreen : GoAdmin(screen)
    \/ Jump \/ SignOut
    \/ \E p \in Profiles : Recheck(p) \/ SignIn(p)

Spec == Init /\ [][Next]_vars

\* React runs the effect of what it has rendered.
Fairness == WF_vars(Jump)
LiveSpec == Spec /\ Fairness

-----------------------------------------------------------------------------
TypeOK ==
    /\ signedIn \in BOOLEAN /\ perms \in Profiles
    /\ view \in {"customer", "admin"} /\ adminScreen \in AdminScreen

(* A staffer who may see some screen does not stay before an empty one, whatever screen another    *)
(* account or an older role has left in the store.                                                 *)
LandsSomewhere ==
    [](InSuite /\ Items(perms) # {} => <>(OnDisplay # None \/ ~InSuite \/ Items(perms) = {}))

(* AdminApp.tsx:89-91: the jump never mounts a screen whose first request the panel would refuse.  *)
NoDeadEnd == [][Jump => HasPermission(perms', Needs(OnDisplay'))]_vars
=============================================================================
