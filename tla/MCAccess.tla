------------------------------ MODULE MCAccess ------------------------------
(***************************************************************************)
(* One address, two sign-ins under way at once, and a browser with one tab.*)
(***************************************************************************)
EXTENDS Access, TLC

==============================================================================
