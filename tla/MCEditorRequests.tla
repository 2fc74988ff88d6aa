---------------------------- MODULE MCEditorRequests ----------------------------
(***************************************************************************)
(* Two requests for two sockets: each may hold one and want another.       *)
(***************************************************************************)
EXTENDS EditorRequests

CONSTANTS r1, r2

MCReq == {r1, r2}
MCRoutes == [r \in MCReq |->
  IF r = r1 THEN {"save", "postAjax", "contentFile", "edit", "getAjax", "delete", "libraryFile"}
  ELSE {"save", "download", "play", "params", "newEdit", "tempFile"}]
================================================================================
