----------------------------- MODULE OneApiCommands -----------------------------
(***************************************************************************)
(* The commands FireEdge forwards to the OpenNebula core over XML-RPC, as  *)
(* server/utils/constants/commands/*.js lists them.  The browser (modules/ *)
(* features/OneApi) and the server (routes/entrypoints/Api/xmlrpc.js) read *)
(* this one table: the first builds the HTTP request from it, the second   *)
(* the route it listens on and the positional arguments of the call.       *)
(*                                                                         *)
(* A command "resource.method" is the field method of the field resource.  *)
(* Its parameters are in the order of the literal, which is the order of   *)
(* the arguments.  Of a default only the type is kept: the server converts *)
(* what it receives to the type of the default.                            *)
(***************************************************************************)
EXTENDS Sequences, TLC

Str  == "string"
Num  == "number"
Bool == "boolean"
Arr  == "array"

\* Where a parameter travels: in the path, the query string or the body.
R(n, t) == [name |-> n, from |-> "resource", type |-> t]
Q(n, t) == [name |-> n, from |-> "query", type |-> t]
B(n, t) == [name |-> n, from |-> "postBody", type |-> t]

\* A command without a path of its own: its URL is /resource/method/...
GET(ps)    == [method |-> "GET", path |-> <<>>, params |-> ps]
POST(ps)   == [method |-> "POST", path |-> <<>>, params |-> ps]
PUT(ps)    == [method |-> "PUT", path |-> <<>>, params |-> ps]
DELETE(ps) == [method |-> "DELETE", path |-> <<>>, params |-> ps]

Id == R("id", Num)
PoolRange == <<Q("filter", Num), Q("start", Num), Q("end", Num)>>
Permissions == <<
  B("ownerUse", Num), B("ownerManage", Num), B("ownerAdmin", Num),
  B("groupUse", Num), B("groupManage", Num), B("groupAdmin", Num),
  B("otherUse", Num), B("otherManage", Num), B("otherAdmin", Num)>>

AclCommands == [
  acl |-> [
    addrule |-> POST(<<B("user", Str), B("resource", Str), B("right", Str), B("zone",
        Str)>>),
    delrule |-> DELETE(<<Id>>),
    info |-> GET(<<>>)]]

BackupJobCommands == [
  backupjob |-> [
    allocate |-> POST(<<B("template", Str)>>),
    delete |-> DELETE(<<Id>>),
    info |-> GET(<<Id, Q("decrypt", Bool)>>),
    update |-> PUT(<<Id, B("template", Str), B("replace", Num)>>),
    rename |-> PUT(<<Id, B("name", Str)>>)]]

BackupJobPermissionCommands == [
  backupjob |-> [
    chown |-> PUT(<<Id, B("user", Num), B("group", Num)>>),
    chmod |-> PUT(<<Id>> \o Permissions),
    lock |-> PUT(<<Id, B("level", Num), B("test", Bool)>>),
    unlock |-> PUT(<<Id>>)]]

BackupJobRunCommands == [
  backupjob |-> [
    backup |-> PUT(<<Id>>),
    cancel |-> PUT(<<Id>>),
    retry |-> PUT(<<Id>>),
    priority |-> PUT(<<Id, B("priority", Num)>>),
    schedadd |-> POST(<<Id, B("template", Str)>>),
    scheddelete |-> DELETE(<<Id, B("schedId", Num)>>),
    schedupdate |-> PUT(<<Id, B("schedId", Num), B("template", Str)>>)],
  backupjobpool |-> [
    info |-> GET(PoolRange)]]

ClusterCommands == [
  cluster |-> [
    allocate |-> PUT(<<B("name", Str)>>),
    delete |-> DELETE(<<Id>>),
    update |-> PUT(<<Id, B("template", Str), B("replace", Num)>>),
    addhost |-> POST(<<Id, B("host", Num)>>),
    delhost |-> DELETE(<<Id, B("host", Num)>>),
    adddatastore |-> PUT(<<Id, B("datastore", Num)>>),
    deldatastore |-> DELETE(<<Id, B("datastore", Num)>>),
    addvnet |-> PUT(<<Id, B("vnet", Num)>>),
    delvnet |-> DELETE(<<Id, B("vnet", Num)>>)]]

ClusterPlanCommands == [
  cluster |-> [
    rename |-> PUT(<<Id, B("name", Str)>>),
    optimize |-> GET(<<Id>>),
    planexecute |-> POST(<<Id>>),
    plandelete |-> DELETE(<<Id>>),
    info |-> GET(<<Id, Q("decrypt", Bool)>>)],
  clusterpool |-> [
    info |-> GET(<<Q("zone", Num)>>)]]

DatastoreCommands == [
  datastore |-> [
    allocate |-> POST(<<B("template", Str), B("cluster", Num)>>),
    delete |-> DELETE(<<Id>>),
    update |-> PUT(<<Id, B("template", Str), B("replace", Num)>>),
    chmod |-> PUT(<<Id>> \o Permissions)]]

DatastorePoolCommands == [
  datastore |-> [
    chown |-> PUT(<<Id, B("user", Num), B("group", Num)>>),
    rename |-> PUT(<<Id, B("name", Str)>>),
    enable |-> PUT(<<Id, B("enable", Bool)>>),
    info |-> GET(<<Id, Q("decrypt", Bool)>>)],
  datastorepool |-> [
    info |-> GET(<<Q("zone", Num)>>)]]

DocumentCommands == [
  document |-> [
    allocate |-> POST(<<B("template", Str), B("type", Num)>>),
    clone |-> POST(<<Id, B("name", Str)>>),
    delete |-> DELETE(<<Id>>),
    update |-> PUT(<<Id, B("template", Str), B("replace", Num)>>)]]

DocumentPermissionCommands == [
  document |-> [
    chmod |-> PUT(<<Id>> \o Permissions),
    chown |-> PUT(<<Id, B("user", Num), B("group", Num)>>),
    rename |-> PUT(<<Id, B("name", Str)>>)]]

DocumentPoolCommands == [
  document |-> [
    info |-> GET(<<Id, Q("decrypt", Bool)>>),
    lock |-> PUT(<<Id, B("lock", Num)>>),
    unlock |-> PUT(<<Id>>)],
  documentpool |-> [
    info |-> GET(PoolRange \o <<Q("type", Num)>>)]]

GroupCommands == [
  group |-> [
    allocate |-> POST(<<B("name", Str)>>),
    delete |-> DELETE(<<Id>>),
    info |-> GET(<<Id, Q("decrypt", Bool)>>),
    update |-> PUT(<<Id, B("template", Str), B("replace", Num)>>),
    addadmin |-> POST(<<Id, B("user", Num)>>),
    deladmin |-> DELETE(<<Id, B("user", Num)>>),
    quota |-> PUT(<<Id, B("template", Str)>>)],
  grouppool |-> [
    info |-> GET(<<>>)],
  groupquota |-> [
    info |-> GET(<<>>),
    update |-> PUT(<<B("template", Str)>>)]]

HookCommands == [
  hook |-> [
    allocate |-> POST(<<B("template", Str)>>),
    \* The literal has this key twice; the later entry counts.
    delete |-> PUT(<<Id, B("template", Str), B("replace", Num)>>),
    rename |-> PUT(<<Id, B("name", Str)>>),
    info |-> GET(<<Id, Q("decrypt", Bool)>>),
    lock |-> PUT(<<Id, B("lock", Num)>>),
    unlock |-> PUT(<<Id>>),
    retry |-> POST(<<Id, B("execution", Num)>>)],
  hookpool |-> [
    info |-> GET(PoolRange)],
  hooklog |-> [
    info |-> GET(<<B("minimun", Str), B("maximun", Str), B("id", Str), B("execution",
        Num)>>)]]

HostCommands == [
  host |-> [
    allocate |-> PUT(<<B("hostname", Str), B("imMad", Str), B("vmmMad", Str),
        B("cluster", Num)>>),
    delete |-> DELETE(<<Id>>),
    status |-> PUT(<<Id, B("status", Num)>>),
    update |-> PUT(<<Id, B("template", Str), B("replace", Num)>>),
    rename |-> PUT(<<Id, B("name", Str)>>),
    info |-> GET(<<Id, Q("decrypt", Bool)>>),
    monitoring |-> GET(<<Id>>)],
  hostpool |-> [
    info |-> GET(<<Q("zone", Num)>>),
    monitoring |-> GET(<<Q("seconds", Num)>>)]]

ImageCommands == [
  image |-> [
    allocate |-> POST(<<B("template", Str), B("datastore", Num), B("capacity", Bool)>>),
    clone |-> POST(<<Id, B("name", Str), B("datastore", Num)>>),
    delete |-> DELETE(<<Id, B("force", Bool)>>),
    enable |-> PUT(<<Id, B("enable", Bool)>>),
    persistent |-> PUT(<<Id, B("persistent", Bool)>>),
    chtype |-> PUT(<<Id, B("type", Str)>>),
    update |-> PUT(<<Id, B("template", Str), B("replace", Num)>>)]]

ImagePermissionCommands == [
  image |-> [
    chmod |-> PUT(<<Id>> \o Permissions),
    chown |-> PUT(<<Id, B("user", Num), B("group", Num)>>),
    rename |-> PUT(<<Id, B("name", Str)>>)]]

ImageSnapshotCommands == [
  image |-> [
    snapshotdelete |-> DELETE(<<Id, B("snapshot", Num)>>),
    snapshotrevert |-> PUT(<<Id, B("snapshot", Num)>>),
    snapshotflatten |-> PUT(<<Id, B("snapshot", Num)>>),
    info |-> GET(<<Id, Q("decrypt", Bool)>>),
    lock |-> PUT(<<Id, B("lock", Num)>>),
    unlock |-> PUT(<<Id>>),
    restore |-> POST(<<Id, B("datastore", Num), B("options", Str)>>)],
  imagepool |-> [
    info |-> GET(PoolRange)]]

MarketCommands == [
  market |-> [
    allocate |-> POST(<<B("template", Str)>>),
    delete |-> DELETE(<<Id>>),
    update |-> PUT(<<Id, B("template", Str), B("update", Num)>>),
    chmod |-> PUT(<<Id>> \o Permissions),
    chown |-> PUT(<<Id, B("user", Num), B("group", Num)>>),
    rename |-> PUT(<<Id, B("name", Str)>>),
    enable |-> PUT(<<Id, B("enable", Bool)>>),
    info |-> GET(<<Id, Q("decrypt", Bool)>>)],
  marketpool |-> [
    info |-> GET(<<>>)]]

MarketAppCommands == [
  marketapp |-> [
    allocate |-> PUT(<<B("template", Str), Id>>),
    delete |-> DELETE(<<Id>>),
    enable |-> PUT(<<Id, B("enable", Bool)>>),
    update |-> PUT(<<Id, B("template", Str), B("replace", Num)>>)]]

MarketAppPermissionCommands == [
  marketapp |-> [
    chmod |-> PUT(<<Id>> \o Permissions),
    chown |-> PUT(<<Id, B("user", Num), B("group", Num)>>),
    rename |-> PUT(<<Id, B("name", Str)>>),
    info |-> GET(<<Id>>),
    lock |-> PUT(<<Id, B("lock", Num)>>),
    unlock |-> PUT(<<Id>>)],
  marketapppool |-> [
    info |-> GET(PoolRange)]]

SecGroupCommands == [
  secgroup |-> [
    allocate |-> POST(<<B("template", Str)>>),
    clone |-> POST(<<Id, B("name", Str)>>),
    delete |-> DELETE(<<Id>>),
    update |-> PUT(<<Id, B("template", Str), B("replace", Num)>>),
    commit |-> PUT(<<Id, B("recover", Bool)>>)]]

SecGroupPermissionCommands == [
  secgroup |-> [
    chmod |-> PUT(<<Id>> \o Permissions),
    chown |-> PUT(<<Id, B("user", Num), B("group", Num)>>),
    rename |-> PUT(<<Id, B("name", Str)>>),
    info |-> GET(<<Id, Q("decrypt", Bool)>>)],
  secgrouppool |-> [
    info |-> GET(PoolRange)]]

SystemCommands == [
  system |-> [
    version |-> GET(<<>>),
    config |-> GET(<<>>)]]

TemplateCommands == [
  template |-> [
    allocate |-> PUT(<<B("template", Str)>>),
    clone |-> POST(<<Id, B("name", Str), B("image", Bool)>>),
    delete |-> DELETE(<<Id, Q("image", Bool)>>),
    instantiate |-> PUT(<<Id, B("name", Str), B("hold", Bool), B("template", Str),
        B("persistent", Bool)>>),
    update |-> PUT(<<Id, B("template", Str), B("replace", Num)>>)]]

TemplatePermissionCommands == [
  template |-> [
    chmod |-> PUT(<<Id>> \o Permissions \o <<B("image", Bool)>>),
    chown |-> PUT(<<Id, B("user", Num), B("group", Num)>>),
    rename |-> PUT(<<Id, B("name", Str)>>),
    lock |-> PUT(<<Id, B("level", Num), B("test", Bool)>>),
    unlock |-> GET(<<Id>>),
    info |-> GET(<<Id, Q("extended", Bool), Q("decrypt", Bool)>>)],
  templatepool |-> [
    info |-> GET(PoolRange)]]

UserCommands == [
  user |-> [
    allocate |-> POST(<<B("username", Str), B("password", Str), B("driver", Str),
        B("group", Arr)>>),
    delete |-> DELETE(<<Id>>),
    passwd |-> PUT(<<Id, B("password", Str)>>),
    login |-> POST(<<B("user", Str), B("token", Str), B("expire", Num), B("gid",
        Num)>>),
    update |-> PUT(<<Id, B("template", Str), B("replace", Num)>>),
    chauth |-> PUT(<<B("id", Num), B("driver", Str), B("password", Str)>>)]]

UserGroupCommands == [
  user |-> [
    quota |-> PUT(<<Id, B("template", Str)>>),
    chgrp |-> PUT(<<Id, B("group", Num)>>),
    addgroup |-> POST(<<Id, B("group", Num)>>),
    delgroup |-> DELETE(<<Id, Q("group", Num)>>),
    enable |-> PUT(<<Id, B("enable", Bool)>>),
    info |-> GET(<<Id, Q("decrypt", Bool)>>)],
  userpool |-> [
    info |-> GET(<<>>)],
  userquota |-> [
    info |-> GET(<<>>),
    update |-> PUT(<<B("template", Str)>>)]]

VdcCommands == [
  vdc |-> [
    allocate |-> POST(<<B("template", Str)>>),
    delete |-> DELETE(<<Id>>),
    update |-> PUT(<<Id, B("template", Str), B("replace", Num)>>),
    rename |-> PUT(<<Id, B("name", Str)>>),
    info |-> GET(<<Id, Q("decrypt", Bool)>>)],
  vdcpool |-> [
    info |-> GET(<<>>)]]

VdcResourceCommands == [
  vdc |-> [
    addgroup |-> POST(<<Id, B("group", Num)>>),
    delgroup |-> DELETE(<<Id, Q("group", Num)>>),
    addcluster |-> POST(<<Id, B("zone", Num), B("cluster", Num)>>),
    delcluster |-> DELETE(<<Id, Q("zone", Num), Q("cluster", Num)>>),
    addhost |-> POST(<<Id, B("zone", Num), B("host", Num)>>),
    delhost |-> DELETE(<<Id, B("zone", Num), B("host", Num)>>)]]

VdcStorageCommands == [
  vdc |-> [
    adddatastore |-> POST(<<Id, B("zone", Num), B("datastore", Num)>>),
    deldatastore |-> DELETE(<<Id, B("zone", Num), B("datastore", Num)>>),
    addvnet |-> POST(<<Id, B("zone", Num), B("vnet", Num)>>),
    delvnet |-> DELETE(<<Id, Q("zone", Num), Q("vnet", Num)>>)]]

VmCommands == [
  vm |-> [
    allocate |-> PUT(<<B("template", Str), B("status", Bool)>>),
    deploy |-> PUT(<<Id, B("host", Num), B("enforce", Bool), B("datastore", Num)>>),
    action |-> PUT(<<B("action", Str), Id>>),
    migrate |-> PUT(<<Id, B("host", Num), B("live", Bool), B("enforce", Bool),
        B("datastore", Num), B("type", Num)>>)]]

VmDiskCommands == [
  vm |-> [
    disksaveas |-> PUT(<<Id, B("disk", Num), B("name", Str), B("type", Str),
        B("snapshot", Num)>>),
    disksnapshotcreate |-> POST(<<Id, B("disk", Num), B("name", Str)>>),
    disksnapshotdelete |-> DELETE(<<Id, Q("disk", Num), Q("snapshot", Num)>>),
    disksnapshotrevert |-> PUT(<<Id, B("disk", Num), B("snapshot", Num)>>),
    disksnapshotrename |-> PUT(<<Id, B("disk", Num), B("snapshot", Num), B("name",
        Str)>>),
    attach |-> PUT(<<Id, B("template", Str)>>),
    detach |-> PUT(<<Id, B("disk", Num)>>),
    diskresize |-> PUT(<<Id, B("disk", Num), B("size", Str)>>)]]

VmNicCommands == [
  vm |-> [
    attachnic |-> PUT(<<Id, B("template", Str)>>),
    detachnic |-> PUT(<<Id, B("nic", Num)>>),
    updatenic |-> PUT(<<Id, B("nic", Num), B("template", Str), B("append", Num)>>),
    attachsg |-> PUT(<<Id, B("nic", Num), B("secgroup", Num)>>),
    detachsg |-> PUT(<<Id, B("nic", Num), B("secgroup", Num)>>)]]

VmPermissionCommands == [
  vm |-> [
    chmod |-> PUT(<<Id>> \o Permissions),
    chown |-> PUT(<<Id, B("user", Num), B("group", Num)>>),
    rename |-> PUT(<<Id, B("name", Str)>>)]]

VmSnapshotCommands == [
  vm |-> [
    snapshotcreate |-> POST(<<Id, B("name", Str)>>),
    snapshotrevert |-> POST(<<Id, B("snapshot", Num)>>),
    snapshotdelete |-> DELETE(<<Id, B("snapshot", Num)>>),
    resize |-> PUT(<<Id, B("template", Str), B("enforce", Bool)>>),
    update |-> PUT(<<Id, B("template", Str), B("replace", Num)>>),
    updateconf |-> PUT(<<Id, B("template", Str), B("replace", Num)>>),
    recover |-> PUT(<<Id, B("operation", Num)>>),
    restore |-> POST(<<B("id", Num), B("imageId", Num), B("incrementId", Num),
        B("diskId", Num)>>)]]

VmInfoCommands == [
  vm |-> [
    info |-> GET(<<Id, Q("decrypt", Bool)>>),
    monitoring |-> GET(<<Id>>),
    lock |-> PUT(<<Id, B("level", Num), B("test", Bool)>>),
    unlock |-> PUT(<<Id>>),
    schedadd |-> POST(<<Id, B("template", Str)>>),
    schedupdate |-> PUT(<<Id, B("schedId", Num), B("template", Str)>>),
    scheddelete |-> DELETE(<<Id, B("schedId", Num)>>),
    backup |-> POST(<<Id, B("dsId", Num), B("reset", Bool)>>)]]

VmPoolCommands == [
  vmpool |-> [
    info |-> GET(PoolRange \o <<Q("state", Num), Q("filterByKey", Str)>>),
    infoextended |-> GET(PoolRange \o <<Q("state", Num), Q("filterBykey", Str)>>),
    monitoring |-> GET(<<Q("filter", Num), Q("seconds", Num)>>),
    accounting |-> GET(PoolRange)]]

VmPciCommands == [
  vmpool |-> [
    showback |-> GET(<<Q("filter", Num), Q("startMonth", Num), Q("startYear", Num),
        Q("endMonth", Num), Q("endYear", Num)>>),
    calculateshowback |-> GET(<<Q("startMonth", Num), Q("startYear", Num),
        Q("endMonth", Num), Q("endYear", Num)>>)],
  vm |-> [
    attachpci |-> PUT(<<Id, B("template", Str)>>),
    detachpci |-> PUT(<<Id, B("pci", Num)>>)]]

VmGroupCommands == [
  vmgroup |-> [
    allocate |-> POST(<<B("template", Str)>>),
    roleadd |-> PUT(<<Id, B("template", Str)>>),
    roledelete |-> DELETE(<<Id, B("roleId", Num)>>),
    roleupdate |-> PUT(<<Id, B("roleId", Num), B("template", Str)>>),
    delete |-> DELETE(<<Id>>),
    update |-> PUT(<<Id, B("template", Str), B("replace", Num)>>)]]

VmGroupPermissionCommands == [
  vmgroup |-> [
    chmod |-> PUT(<<Id>> \o Permissions),
    chown |-> PUT(<<Id, B("user", Num), B("group", Num)>>),
    rename |-> PUT(<<Id, Q("name", Str)>>),
    info |-> GET(<<Id, Q("decrypt", Bool)>>),
    lock |-> PUT(<<Id, B("lock", Num)>>),
    unlock |-> PUT(<<Id>>)],
  vmgrouppool |-> [
    info |-> GET(PoolRange)]]

VnetCommands == [
  vn |-> [
    allocate |-> POST(<<B("template", Str), B("cluster", Num)>>),
    delete |-> DELETE(<<Id>>),
    add_ar |-> PUT(<<Id, B("template", Str)>>),
    rm_ar |-> PUT(<<Id, B("address", Num)>>),
    update_ar |-> PUT(<<Id, B("template", Str)>>),
    reserve |-> PUT(<<Id, B("template", Str)>>),
    free_ar |-> PUT(<<Id, B("range", Num)>>),
    hold |-> PUT(<<Id, B("template", Str)>>),
    release |-> PUT(<<Id, B("template", Str)>>)]]

VnetPermissionCommands == [
  vn |-> [
    update |-> PUT(<<Id, B("template", Str), B("replace", Num)>>),
    chmod |-> PUT(<<Id>> \o Permissions),
    chown |-> PUT(<<Id, B("user", Num), B("group", Num)>>),
    rename |-> PUT(<<Id, B("name", Str)>>)]]

VnetPoolCommands == [
  vn |-> [
    info |-> GET(<<Id, Q("decrypt", Bool)>>),
    lock |-> PUT(<<Id, B("level", Num)>>),
    unlock |-> PUT(<<Id>>),
    recover |-> PUT(<<Id, B("operation", Num)>>)],
  vnpool |-> [
    info |-> GET(PoolRange \o <<Q("zone", Num)>>)]]

VnTemplateCommands == [
  vntemplate |-> [
    allocate |-> POST(<<B("template", Str)>>),
    clone |-> POST(<<Id, B("name", Str)>>),
    delete |-> DELETE(<<Id>>),
    instantiate |-> PUT(<<Id, B("name", Str), B("template", Str)>>),
    update |-> PUT(<<Id, B("template", Str), B("replace", Num)>>)]]

VnTemplatePermissionCommands == [
  vntemplate |-> [
    chmod |-> PUT(<<Id>> \o Permissions),
    chown |-> PUT(<<Id, B("user", Num), B("group", Num)>>),
    rename |-> PUT(<<Id, B("name", Str)>>),
    info |-> GET(<<Id, Q("decrypt", Bool)>>),
    lock |-> PUT(<<Id, B("level", Num), B("test", Bool)>>),
    unlock |-> PUT(<<Id>>)],
  vntemplatepool |-> [
    info |-> GET(PoolRange)]]

VrouterCommands == [
  vrouter |-> [
    allocate |-> POST(<<B("template", Str)>>),
    delete |-> DELETE(<<Id, Q("images", Bool)>>),
    \* The literal has this key twice; the later entry counts.
    instantiate |-> PUT(<<B("id", Num), B("number", Num), B("templateId", Num),
        B("name", Str), B("pending", Bool), B("template", Str)>>),
    attachnic |-> PUT(<<Id, B("template", Str)>>),
    detachnic |-> PUT(<<Id, B("nic", Num)>>)]]

VrouterPermissionCommands == [
  vrouter |-> [
    update |-> PUT(<<Id, B("template", Str), B("update", Num)>>),
    chmod |-> PUT(<<Id>> \o Permissions),
    chown |-> PUT(<<Id, B("userId", Num), B("groupId", Num)>>),
    rename |-> PUT(<<Id, B("name", Str)>>),
    info |-> GET(<<Id, Q("decrypt", Bool)>>),
    lock |-> PUT(<<Id, B("lock", Num)>>),
    unlock |-> PUT(<<Id>>)],
  vrouterpool |-> [
    info |-> GET(PoolRange)]]

ZoneCommands == [
  zone |-> [
    allocate |-> POST(<<B("template", Str)>>),
    delete |-> DELETE(<<Id>>),
    update |-> PUT(<<Id, B("template", Str), B("replace", Num)>>),
    rename |-> PUT(<<Id, B("name", Str)>>),
    info |-> GET(<<Id, Q("decrypt", Bool)>>),
    raftstatus |-> GET(<<>>)],
  zonepool |-> [
    info |-> GET(<<>>)]]

\* commands/index.js: all of them in one table.
CommandTables == <<
  AclCommands, BackupJobCommands, BackupJobPermissionCommands,
  BackupJobRunCommands, ClusterCommands, ClusterPlanCommands,
  DatastoreCommands, DatastorePoolCommands, DocumentCommands,
  DocumentPermissionCommands, DocumentPoolCommands, GroupCommands,
  HookCommands, HostCommands, ImageCommands, ImagePermissionCommands,
  ImageSnapshotCommands, MarketCommands, MarketAppCommands,
  MarketAppPermissionCommands, SecGroupCommands, SecGroupPermissionCommands,
  SystemCommands, TemplateCommands, TemplatePermissionCommands, UserCommands,
  UserGroupCommands, VdcCommands, VdcResourceCommands, VdcStorageCommands,
  VmCommands, VmDiskCommands, VmNicCommands, VmPermissionCommands,
  VmSnapshotCommands, VmInfoCommands, VmPoolCommands, VmPciCommands,
  VmGroupCommands, VmGroupPermissionCommands, VnetCommands,
  VnetPermissionCommands, VnetPoolCommands, VnTemplateCommands,
  VnTemplatePermissionCommands, VrouterCommands, VrouterPermissionCommands,
  ZoneCommands>>

=============================================================================
