---------------------------- MODULE MCBootstrap ----------------------------
(***************************************************************************)
(* Bootstrap for TLC, with the profiles of the launchers.                   *)
(***************************************************************************)
EXTENDS Bootstrap, Platforms

\* Every launcher.
Launchers ==
    [vsrx |-> vsrx, apstra |-> apstra, ubuntu |-> ubuntu,
     cmglinux |-> cmglinux, veos |-> veos, ftdv |-> ftdv, voss |-> voss,
     aoscx |-> aoscx, ocnos |-> ocnos, routeros |-> routeros,
     vsr1000 |-> vsr1000, exos |-> exos, ftosv |-> ftosv,
     vjunosevolved |-> vjunosevolved, ontap |-> ontap,
     opnsense |-> opnsense, arcos |-> arcos,
     vjunosrouter |-> vjunosrouter, vjunosswitch |-> vjunosswitch,
     nxos |-> nxos, n9kv |-> n9kv, sonic |-> sonic,
     plvision_sonic |-> plvision_sonic, dell_sonic |-> dell_sonic,
     pan |-> pan, xrv |-> xrv, xrv9k |-> xrv9k, vstc |-> vstc,
     vios |-> vios, asav |-> asav, freebsd |-> freebsd,
     openbsd |-> openbsd, f5_bigip |-> f5_bigip,
     huawei_vrp |-> huawei_vrp, truenas |-> truenas, cat9kv |-> cat9kv,
     csr1000v |-> csr1000v, xrd_vrouter |-> xrd_vrouter,
     c8000v |-> c8000v, c8000v_ztp |-> c8000v_ztp, sdwan |-> sdwan,
     cumulus |-> cumulus, vmx_vcp |-> vmx_vcp, vqfx_vcp |-> vqfx_vcp,
     sros |-> sros, vmx_vfpc |-> vmx_vfpc, vqfx_vpfe |-> vqfx_vpfe,
     sros_lc |-> sros_lc]

Every == DOMAIN Launchers

=============================================================================
