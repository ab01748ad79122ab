--------------------------- MODULE MCDesktopTunnel ---------------------------
(***************************************************************************)
(* DesktopTunnel for TLC.                                                  *)
(***************************************************************************)
EXTENDS DesktopTunnel

\* After a refused call, or a death with an address that recovery does not look
\* for, no property says anything about the proxy any more: such a state is
\* reached, but not followed further.
AddressKnown == marred \cap {"denied", "stray"} = {}
==============================================================================
