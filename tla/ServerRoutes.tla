------------------------------ MODULE ServerRoutes ------------------------------
(***************************************************************************)
(* The routes FireEdge answers with functions of its own (server/routes/   *)
(* api/**/routes.js): they keep the record shape of OneApiCommands and add *)
(* a path.  These routes hand their parameters to the function as they     *)
(* were received, under their names: no default and no conversion.         *)
(***************************************************************************)
EXTENDS OneApiCommands

Raw == "raw"

\* A parameter the multipart parser of routes/api/index.js fills.
F(n) == [name |-> n, from |-> "files", type |-> Raw]

\* The segments of a path: a literal, a parameter, an optional parameter.
L(s) == [kind |-> "literal", text |-> s]
V(s) == [kind |-> "param", text |-> s]
O(s) == [kind |-> "optional", text |-> s]

\* A route that needs a session, and one that does not (auth: false).
At(m, p, ps)   == [method |-> m, path |-> p, params |-> ps, auth |-> TRUE]
Open(m, p, ps) == [method |-> m, path |-> p, params |-> ps, auth |-> FALSE]

TfaRoutes == [
  tfa |-> [
    setup |-> At("POST", <<L("tfa")>>, <<B("token", Raw)>>),
    qr |-> At("GET", <<L("tfa")>>, <<>>),
    delete |-> At("DELETE", <<L("tfa")>>, <<>>)]]

AuthRoutes == [
  auth |-> [
    login |-> Open("POST", <<L("auth")>>,
        <<B("user", Raw), B("token", Raw), B("type", Raw), B("tfatoken", Raw),
          B("remember", Raw)>>),
    logout |-> At("POST", <<L("auth"), L("logout")>>, <<>>),
    saml |-> Open("POST", <<L("auth"), L("acs")>>, <<B("SAMLResponse", Raw)>>)]]

ClusterRoutes == [
  cluster |-> [
    adminInfo |-> At("GET", <<L("cluster"), L("admininfo"), V("id")>>,
        <<R("id", Raw)>>)]]

HostRoutes == [
  hostpool |-> [
    adminInfo |-> At("GET", <<L("hostpool"), L("admininfo")>>, <<>>)],
  host |-> [
    flush |-> At("POST", <<L("host"), L("flush"), V("id")>>,
        <<R("id", Raw), B("destination", Raw), B("vms", Raw)>>)]]

FileRoutes == [
  file |-> [
    show |-> Open("GET", <<L("files"), L("show")>>,
        <<Q("file", Raw), Q("token", Raw), Q("app", Raw)>>),
    list |-> At("GET", <<L("files")>>, <<Q("app", Raw)>>),
    upload |-> At("POST", <<L("files")>>,
        <<Q("app", Raw), F("files"), Q("public", Raw)>>),
    update |-> At("PUT", <<L("files")>>, <<Q("name", Raw), F("files")>>),
    delete |-> At("DELETE", <<L("files")>>, <<Q("file", Raw)>>)]]

ImageRoutes == [
  image |-> [
    upload |-> At("POST", <<L("image"), L("upload")>>, <<F("files")>>)]]

LogoRoutes == [
  logo |-> [
    brand |-> Open("GET", <<L("logo")>>, <<>>),
    templates |-> Open("GET", <<L("logo"), L("templatelogos")>>, <<>>)]]

MarketAppRoutes == [
  marketapp |-> [
    export |-> At("POST", <<L("marketapp"), L("export"), V("id")>>,
        <<R("id", Raw), B("name", Raw), B("datastore", Raw), B("file", Raw),
          B("associated", Raw), B("tag", Raw), B("template", Raw),
          B("vmname", Raw)>>),
    download |-> Open("GET", <<L("marketapp"), L("download"), V("id")>>,
        <<R("id", Raw), Q("token", Raw)>>),
    import |-> At("POST", <<L("marketapp"), L("vmimport"), V("id")>>,
        <<R("id", Raw), B("resource", Raw), B("associated", Raw),
          B("marketId", Raw), B("vmname", Raw)>>)]]

ServiceRoutes == [
  service |-> [
    show |-> At("GET", <<L("service"), O("id")>>, <<R("id", Raw)>>),
    addaction |-> At("POST", <<L("service"), L("action"), V("id")>>,
        <<R("id", Raw), B("action", Raw)>>),
    addscale |-> At("POST", <<L("service"), V("id"), L("scale")>>,
        <<R("id", Raw), B("action", Raw)>>),
    addrole |-> At("POST", <<L("service"), V("id"), L("role_action")>>,
        <<R("id", Raw), B("action", Raw)>>),
    addroleaction |-> At("POST",
        <<L("service"), V("id"), L("role"), V("role"), L("action")>>,
        <<R("id", Raw), R("role", Raw), B("action", Raw)>>),
    addscheaction |-> At("POST", <<L("service"), L("sched_action"), V("id")>>,
        <<R("id", Raw), B("sched_action", Raw)>>),
    updateschedaction |-> At("PUT",
        <<L("service"), L("sched_action"), V("id"), V("id_sched")>>,
        <<R("id", Raw), R("id_sched", Raw), B("sched_action", Raw)>>),
    deleteschedaction |-> At("DELETE",
        <<L("service"), L("sched_action"), V("id"), V("id_sched")>>,
        <<R("id", Raw), R("id_sched", Raw)>>),
    delete |-> At("DELETE", <<L("service"), V("id")>>, <<R("id", Raw)>>)]]

ServiceTemplateRoutes == [
  servicetemplate |-> [
    show |-> At("GET", <<L("service_template"), O("id")>>, <<R("id", Raw)>>),
    action |-> At("POST", <<L("service_template"), L("action"), V("id")>>,
        <<R("id", Raw), B("action", Raw)>>),
    create |-> At("POST", <<L("service_template")>>, <<B("template", Raw)>>),
    update |-> At("PUT", <<L("service_template"), V("id")>>,
        <<R("id", Raw), B("template", Raw)>>),
    delete |-> At("DELETE", <<L("service_template"), V("id")>>, <<R("id", Raw)>>)]]

DriverRoutes == [
  drivers |-> [
    list |-> At("GET", <<L("drivers")>>, <<>>),
    show |-> At("GET", <<L("drivers"), V("name")>>, <<R("name", Raw)>>),
    enable |-> At("POST", <<L("drivers"), V("name"), L("enable")>>,
        <<R("name", Raw)>>),
    disable |-> At("POST", <<L("drivers"), V("name"), L("disable")>>,
        <<R("name", Raw)>>),
    sync |-> At("POST", <<L("drivers"), L("sync")>>, <<>>)]]

ProviderRoutes == [
  providers |-> [
    list |-> At("GET", <<L("providers")>>, <<>>),
    show |-> At("GET", <<L("providers"), V("id")>>, <<R("id", Raw)>>),
    create |-> At("POST", <<L("providers")>>, <<B("template", Raw)>>),
    update |-> At("PATCH", <<L("providers"), V("id")>>,
        <<R("id", Raw), B("template", Raw)>>),
    delete |-> At("DELETE", <<L("providers"), V("id")>>, <<R("id", Raw)>>),
    chmod |-> At("POST", <<L("providers"), V("id"), L("chmod")>>,
        <<R("id", Raw), B("octet", Raw)>>),
    chown |-> At("POST", <<L("providers"), V("id"), L("chown")>>,
        <<R("id", Raw), B("owner_id", Raw), B("group_id", Raw)>>),
    chgrp |-> At("POST", <<L("providers"), V("id"), L("chgrp")>>,
        <<R("id", Raw), B("group_id", Raw)>>)]]

ProvisionRoutes == [
  provisions |-> [
    list |-> At("GET", <<L("provisions")>>, <<Q("extended", Raw)>>),
    show |-> At("GET", <<L("provisions"), V("id")>>,
        <<R("id", Raw), Q("extended", Raw)>>),
    logs |-> At("GET", <<L("provisions"), V("id"), L("logs")>>,
        <<R("id", Raw), Q("all", Raw)>>),
    create |-> At("POST", <<L("provisions")>>, <<B("template", Raw)>>),
    update |-> At("PATCH", <<L("provisions"), V("id")>>,
        <<R("id", Raw), B("template", Raw)>>),
    delete |-> At("DELETE", <<L("provisions"), V("id")>>,
        <<R("id", Raw), Q("force", Raw)>>),
    undeploy |-> At("POST", <<L("provisions"), V("id"), L("undeploy")>>,
        <<R("id", Raw), B("force", Raw)>>),
    retry |-> At("POST", <<L("provisions"), V("id"), L("retry")>>,
        <<R("id", Raw)>>),
    scale |-> At("POST", <<L("provisions"), V("id"), L("scale")>>,
        <<R("id", Raw), B("nodes", Raw), B("direction", Raw)>>),
    add_ip |-> At("POST", <<L("provisions"), V("id"), L("add-ip")>>,
        <<R("id", Raw), B("amount", Raw)>>),
    remove_ip |-> At("POST", <<L("provisions"), V("id"), L("remove-ip")>>,
        <<R("id", Raw), B("ar_id", Raw)>>),
    chmod |-> At("POST", <<L("provisions"), V("id"), L("chmod")>>,
        <<R("id", Raw), B("octet", Raw)>>),
    chown |-> At("POST", <<L("provisions"), V("id"), L("chown")>>,
        <<R("id", Raw), B("owner_id", Raw), B("group_id", Raw)>>),
    chgrp |-> At("POST", <<L("provisions"), V("id"), L("chgrp")>>,
        <<R("id", Raw), B("group_id", Raw)>>)]]

VmRoutes == [
  vm |-> [
    saveastemplate |-> At("POST", <<L("vm"), L("save"), V("id")>>,
        <<R("id", Raw), B("name", Raw), B("persistent", Raw)>>),
    guacamole |-> At("GET", <<L("vm"), V("id"), L("guacamole"), V("type")>>,
        <<R("id", Raw), R("type", Raw), Q("zone", Raw), Q("download", Raw)>>),
    logs |-> At("GET", <<L("vm"), V("id"), L("logs")>>, <<R("id", Raw)>>)]]

VmPoolRoutes == [
  vmpool |-> [
    accountingfilter |-> At("GET", <<L("vmpool"), L("accounting"), L("filtered")>>,
        <<Q("user", Raw), Q("group", Raw), Q("start", Raw), Q("end", Raw)>>),
    showbackfilter |-> At("GET", <<L("vmpool"), L("showback"), L("filtered")>>,
        <<Q("user", Raw), Q("group", Raw), Q("startMonth", Raw),
          Q("startYear", Raw), Q("endMonth", Raw), Q("endYear", Raw)>>),
    paginated |-> At("GET", <<L("vmpool"), L("info"), L("paginated")>>,
        <<Q("extended", Raw), Q("filter", Raw), Q("offset", Raw),
          Q("pageSize", Raw), Q("state", Raw), Q("filterByKey", Raw)>>)]]

ZendeskRoutes == [
  zendesk |-> [
    login |-> At("POST", <<L("zendesk"), L("login")>>,
        <<B("user", Raw), B("pass", Raw)>>),
    create |-> At("POST", <<L("zendesk")>>,
        <<B("subject", Raw), B("body", Raw), B("version", Raw), B("severity", Raw),
          F("attachments")>>),
    update |-> At("PUT", <<L("zendesk"), V("id")>>,
        <<R("id", Raw), B("body", Raw), B("solved", Raw), F("attachments")>>),
    comment |-> At("GET", <<L("zendesk"), L("comments"), V("id")>>,
        <<R("id", Raw)>>),
    list |-> At("GET", <<L("zendesk")>>, <<>>)]]

SunstoneRoutes == [
  sunstone |-> [
    views |-> At("GET", <<L("sunstone"), L("views")>>, <<>>),
    config |-> At("GET", <<L("sunstone"), L("config")>>, <<>>),
    availableViews |-> At("GET", <<L("sunstone"), L("views"), L("available")>>,
        <<>>)]]

SystemRoutes == [
  system |-> [
    config |-> At("GET", <<L("system"), L("config")>>, <<>>),
    profiles |-> At("GET", <<L("system"), L("profiles")>>, <<Q("id", Raw)>>)],
  vmm |-> [
    config |-> At("GET", <<L("system"), L("vmmconfig")>>,
        <<Q("hypervisor", Raw)>>)],
  tab |-> [
    config |-> Open("GET", <<L("system"), L("tab-manifest")>>, <<>>)],
  defaultlabels |-> [
    config |-> At("GET", <<L("system"), L("default-labels")>>, <<>>)]]

SupportRoutes == [
  support |-> [
    check |-> At("GET", <<L("support"), L("check")>>, <<>>)]]

VdcRoutes == [
  vdc |-> [
    create |-> At("POST", <<L("vdc"), L("create")>>,
        <<B("hosts", Raw), B("datastores", Raw), B("vnets", Raw), B("groups", Raw),
          B("clusters", Raw), B("template", Raw)>>),
    updateVdc |-> At("PUT", <<L("vdc"), L("updateVdc"), V("id")>>,
        <<R("id", Raw), B("hosts", Raw), B("datastores", Raw), B("vnets", Raw),
          B("groups", Raw), B("clusters", Raw), B("template", Raw)>>)]]

\* routes/api/index.js: the files in the order it registers them.
RouteTables == <<
  TfaRoutes, AuthRoutes, ClusterRoutes, HostRoutes, FileRoutes, ImageRoutes,
  LogoRoutes, MarketAppRoutes, ServiceRoutes, ServiceTemplateRoutes,
  DriverRoutes, ProviderRoutes, ProvisionRoutes, VmRoutes, VmPoolRoutes,
  ZendeskRoutes, SunstoneRoutes, SystemRoutes, SupportRoutes, VdcRoutes>>

=============================================================================
