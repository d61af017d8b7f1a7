---------------------------- MODULE OneApiEndpoints ----------------------------
(***************************************************************************)
(* The endpoints of the browser's API slice (modules/features/OneApi/      *)
(* *.js).  Of each endpoint the table keeps                                *)
(*   cmd      the command its query function asks for,                     *)
(*   sends    the parameters it hands on, by the names its signature gives,*)
(*   patches  the cached views its onQueryStarted rewrites, and            *)
(*   tags     what a query provides, or what a mutation invalidates.       *)
(*                                                                         *)
(* The tags are those of the endpoint's own resource: a tag of another     *)
(* resource only makes that resource's views reload once more.  Patches    *)
(* that write nothing are left out, because the function that would write  *)
(* is given none of the fields it writes: removeCluster, removeGroup and   *)
(* removeMarketplace "rename" to no name, the service role and action      *)
(* endpoints change the owner to no owner, updateProvider renames to no    *)
(* name, as renameProvider does the detail, whose caller puts the name in  *)
(* the template; getMarketplace addresses a view that nobody holds, and    *)
(* removeResourceOnPool discards the array it filters.                     *)
(*                                                                         *)
(* Endpoints without a command of their own (they combine other endpoints, *)
(* or post a form themselves) are not in the table.                        *)
(***************************************************************************)
EXTENDS OneApiCommands

\* The tags [type: R, id], [type: R_POOL, id], R_POOL, R.  A stray tag is one
\* whose id is the whole argument object: no view provides it.
One == "one"
InPool == "in pool"
Pool == "pool"
Every == "every"
Stray == "stray"

\* The views a patch rewrites: the detail of one object, its entry in the
\* list.  A hole is an entry overwritten by undefined (updateResourceOnPool
\* called without the resource).
D == "detail"
P == "list"
Hole == "hole"

Query(c, s, p, t) ==
  [kind |-> "query", cmd |-> c, listed |-> TRUE, sends |-> s, patches |-> p,
   tags |-> t]
Mutation(c, s, p, t) ==
  [kind |-> "mutation", cmd |-> c, listed |-> TRUE, sends |-> s, patches |-> p,
   tags |-> t]

\* vrouterTemplate.js looks its commands up in the table of virtual routers,
\* which does not have them: method and parameters are undefined.
Unlisted(e) == [e EXCEPT !.listed = FALSE]

PermissionNames == {Permissions[i].name : i \in DOMAIN Permissions}

AclEndpoints == [
  getAcls |-> Query(<<"acl", "info">>, {}, {}, {InPool, Pool}),
  allocateAcl |-> Mutation(<<"acl", "addrule">>,
      {"user", "resource", "right"}, {}, {Pool}),
  removeAcl |-> Mutation(<<"acl", "delrule">>, {"id"}, {}, {Pool})]

AuthEndpoints == [
  login |-> Mutation(<<"auth", "login">>,
      {"user", "token", "remember", "tfatoken"}, {}, {}),
  logout |-> Mutation(<<"auth", "logout">>, {}, {}, {})]

BackupJobQueries == [
  getBackupJobs |-> Query(<<"backupjobpool", "info">>,
      {"filter", "start", "end"}, {}, {InPool, Pool}),
  getBackupJob |-> Query(<<"backupjob", "info">>, {"id", "decrypt"}, {P}, {One}),
  allocateBackupJob |-> Mutation(<<"backupjob", "allocate">>,
      {"template"}, {}, {Pool}),
  removeBackupJob |-> Mutation(<<"backupjob", "delete">>, {"id"}, {}, {Pool}),
  createBackupJob |-> Mutation(<<"backupjob", "allocate">>, {"template"}, {}, {})]

BackupJobOwnerEndpoints == [
  updateBackupJob |-> Mutation(<<"backupjob", "update">>,
      {"id", "template", "replace"}, {D, P}, {One}),
  renameBackupJob |-> Mutation(<<"backupjob", "rename">>,
      {"id", "name"}, {D, P}, {One}),
  changeBackupJobOwnership |-> Mutation(<<"backupjob", "chown">>,
      {"id", "userId", "groupId"}, {}, {One, Pool}),
  lockBackupJob |-> Mutation(<<"backupjob", "lock">>,
      {"id", "lock"}, {}, {One, Pool})]

BackupJobRunEndpoints == [
  unlockBackupJob |-> Mutation(<<"backupjob", "unlock">>, {"id"}, {}, {One, Pool}),
  startBackupJob |-> Mutation(<<"backupjob", "backup">>, {"id"}, {}, {One}),
  cancelBackupJob |-> Mutation(<<"backupjob", "cancel">>, {"id"}, {}, {One}),
  retryBackupJob |-> Mutation(<<"backupjob", "retry">>, {"id"}, {}, {One}),
  changeBackupJobPermissions |-> Mutation(<<"backupjob", "chmod">>,
      {"id"} \cup PermissionNames, {}, {One}),
  addScheduledActionBackupJob |-> Mutation(<<"backupjob", "schedadd">>,
      {"id", "template"}, {}, {One}),
  updateScheduledActionBackupJob |-> Mutation(<<"backupjob", "schedupdate">>,
      {"id", "schedId", "template"}, {}, {One})]

BackupJobScheduleEndpoints == [
  deleteScheduledActionBackupJob |-> Mutation(<<"backupjob", "scheddelete">>,
      {"id", "schedId"}, {}, {One}),
  updatePriorityBackupJob |-> Mutation(<<"backupjob", "priority">>,
      {"id", "priority"}, {}, {One})]

ClusterQueries == [
  getClusters |-> Query(<<"clusterpool", "info">>, {"zone"}, {}, {InPool, Pool}),
  getCluster |-> Query(<<"cluster", "info">>, {"id", "decrypt"}, {P}, {One}),
  optimizeCluster |-> Mutation(<<"cluster", "optimize">>, {"id"}, {}, {One}),
  deletePlan |-> Mutation(<<"cluster", "plandelete">>, {"id"}, {}, {One}),
  applyPlan |-> Mutation(<<"cluster", "planexecute">>, {"id"}, {}, {One}),
  getClusterAdmin |-> Query(<<"cluster", "adminInfo">>,
      {"id", "decrypt"}, {}, {One})]

ClusterEndpoints == [
  allocateCluster |-> Mutation(<<"cluster", "allocate">>, {"name"}, {}, {Pool}),
  removeCluster |-> Mutation(<<"cluster", "delete">>, {"id"}, {}, {Pool}),
  updateCluster |-> Mutation(<<"cluster", "update">>,
      {"id", "template", "replace"}, {D, P}, {One}),
  addHostToCluster |-> Mutation(<<"cluster", "addhost">>,
      {"id", "host"}, {}, {One, Pool}),
  removeHostFromCluster |-> Mutation(<<"cluster", "delhost">>,
      {"id", "host"}, {}, {One, Pool})]

ClusterMemberEndpoints == [
  addDatastoreToCluster |-> Mutation(<<"cluster", "adddatastore">>,
      {"id", "datastore"}, {}, {One, Pool}),
  removeDatastoreFromCluster |-> Mutation(<<"cluster", "deldatastore">>,
      {"id", "datastore"}, {}, {One, Pool}),
  addNetworkToCluster |-> Mutation(<<"cluster", "addvnet">>,
      {"id", "vnet"}, {}, {One, Pool}),
  removeNetworkFromCluster |-> Mutation(<<"cluster", "delvnet">>,
      {"id", "vnet"}, {}, {One, Pool}),
  renameCluster |-> Mutation(<<"cluster", "rename">>,
      {"id", "name"}, {}, {One, Pool})]

DatastoreQueries == [
  getDatastores |-> Query(<<"datastorepool", "info">>,
      {"zone"}, {}, {InPool, Pool}),
  getDatastore |-> Query(<<"datastore", "info">>, {"id", "decrypt"}, {P}, {One}),
  allocateDatastore |-> Mutation(<<"datastore", "allocate">>,
      {"template", "cluster"}, {}, {Pool}),
  removeDatastore |-> Mutation(<<"datastore", "delete">>, {"id"}, {}, {Pool}),
  updateDatastore |-> Mutation(<<"datastore", "update">>,
      {"id", "template", "replace"}, {D, P}, {One})]

DatastoreEndpoints == [
  changeDatastorePermissions |-> Mutation(<<"datastore", "chmod">>,
      {"id"} \cup PermissionNames, {D}, {One}),
  changeDatastoreOwnership |-> Mutation(<<"datastore", "chown">>,
      {"id", "user", "group"}, {D}, {One}),
  renameDatastore |-> Mutation(<<"datastore", "rename">>,
      {"id", "name"}, {D, P}, {One, Pool}),
  enableDatastore |-> Mutation(<<"datastore", "enable">>,
      {"id", "enable"}, {}, {One, Pool}),
  disableDatastore |-> Mutation(<<"datastore", "enable">>,
      {"id", "enable"}, {}, {One, Pool})]

DriverEndpoints == [
  getDrivers |-> Query(<<"drivers", "list">>, {}, {}, {InPool, Pool}),
  getDriver |-> Query(<<"drivers", "show">>, {"name"}, {}, {One}),
  enableDriver |-> Mutation(<<"drivers", "enable">>, {"name"}, {}, {Stray, Pool}),
  disableDriver |-> Mutation(<<"drivers", "disable">>, {"name"}, {}, {Stray, Pool}),
  syncDrivers |-> Mutation(<<"drivers", "sync">>, {}, {}, {Pool})]

GroupQueries == [
  getGroups |-> Query(<<"grouppool", "info">>, {}, {}, {InPool, Pool}),
  getGroup |-> Query(<<"group", "info">>, {"id"}, {P}, {One}),
  allocateGroup |-> Mutation(<<"group", "allocate">>, {"name"}, {}, {Pool})]

GroupEndpoints == [
  updateGroup |-> Mutation(<<"group", "update">>,
      {"id", "template", "replace"}, {D, P}, {One}),
  removeGroup |-> Mutation(<<"group", "delete">>, {"id"}, {}, {Pool}),
  addAdminToGroup |-> Mutation(<<"group", "addadmin">>, {"id", "user"}, {}, {One}),
  removeAdminFromGroup |-> Mutation(<<"group", "deladmin">>,
      {"id", "user"}, {}, {One}),
  getGroupQuota |-> Query(<<"grouppool", "info">>, {}, {}, {})]

GroupQuotaEndpoints == [
  updateGroupQuota |-> Mutation(<<"group", "quota">>,
      {"id", "template"}, {}, {One}),
  updateDefaultGroupQuota |-> Mutation(<<"groupquota", "update">>,
      {"template"}, {}, {})]

HostQueries == [
  getHosts |-> Query(<<"hostpool", "info">>, {"zone"}, {}, {InPool, Pool}),
  getHostsAdmin |-> Query(<<"hostpool", "adminInfo">>, {}, {}, {InPool, Pool}),
  getHost |-> Query(<<"host", "info">>, {"id"}, {P}, {One})]

HostEndpoints == [
  allocateHost |-> Mutation(<<"host", "allocate">>,
      {"hostname", "imMad", "vmmMad", "cluster"}, {}, {}),
  updateHost |-> Mutation(<<"host", "update">>,
      {"id", "template", "replace"}, {D, P}, {One}),
  removeHost |-> Mutation(<<"host", "delete">>, {"id"}, {}, {Pool}),
  enableHost |-> Mutation(<<"host", "status">>, {"id", "status"}, {}, {One, Pool}),
  flush |-> Mutation(<<"host", "flush">>, {"id"}, {}, {Pool}),
  disableHost |-> Mutation(<<"host", "status">>, {"id", "status"}, {}, {One, Pool}),
  offlineHost |-> Mutation(<<"host", "status">>, {"id", "status"}, {}, {One, Pool})]

HostMonitoringEndpoints == [
  renameHost |-> Mutation(<<"host", "rename">>, {"id", "name"}, {D, P}, {One}),
  getHostMonitoring |-> Query(<<"host", "monitoring">>, {"id"}, {}, {}),
  getHostMonitoringPool |-> Query(<<"hostpool", "monitoring">>,
      {"seconds"}, {}, {})]

ImagePoolQueries == [
  getImages |-> Query(<<"imagepool", "info">>,
      {"filter", "start", "end"}, {}, {InPool, Pool}),
  getFiles |-> Query(<<"imagepool", "info">>,
      {"filter", "start", "end"}, {}, {InPool, Pool}),
  getBackups |-> Query(<<"imagepool", "info">>,
      {"filter", "start", "end"}, {}, {InPool, Pool})]

ImageQueries == [
  getImage |-> Query(<<"image", "info">>, {"id", "decrypt"}, {P}, {One}),
  allocateImage |-> Mutation(<<"image", "allocate">>,
      {"template", "datastore", "capacity"}, {}, {Pool})]

ImageEndpoints == [
  cloneImage |-> Mutation(<<"image", "clone">>,
      {"id", "name", "datastore"}, {}, {Pool}),
  removeImage |-> Mutation(<<"image", "delete">>, {"id"}, {}, {Pool}),
  enableImage |-> Mutation(<<"image", "enable">>,
      {"id", "enable"}, {}, {One, Pool}),
  disableImage |-> Mutation(<<"image", "enable">>,
      {"id", "enable"}, {}, {One, Pool}),
  persistentImage |-> Mutation(<<"image", "persistent">>,
      {"id", "persistent"}, {}, {One, Pool}),
  changeImageType |-> Mutation(<<"image", "chtype">>,
      {"id", "type"}, {}, {Stray, Pool}),
  updateImage |-> Mutation(<<"image", "update">>,
      {"id", "template"}, {D, P}, {One, InPool})]

ImageOwnerEndpoints == [
  changeImagePermissions |-> Mutation(<<"image", "chmod">>,
      {"id"} \cup PermissionNames, {}, {One}),
  changeImageOwnership |-> Mutation(<<"image", "chown">>,
      {"id", "userId", "groupId"}, {}, {One, Pool}),
  renameImage |-> Mutation(<<"image", "rename">>, {"id", "name"}, {}, {One, Pool}),
  deleteImageSnapshot |-> Mutation(<<"image", "snapshotdelete">>,
      {"id", "snapshot"}, {}, {One}),
  revertImageSnapshot |-> Mutation(<<"image", "snapshotrevert">>,
      {"id", "snapshot"}, {}, {One}),
  flattenImageSnapshot |-> Mutation(<<"image", "snapshotflatten">>,
      {"id", "snapshot"}, {}, {One}),
  lockImage |-> Mutation(<<"image", "lock">>, {"id", "lock"}, {}, {One, Pool})]

ImageBackupEndpoints == [
  unlockImage |-> Mutation(<<"image", "unlock">>, {"id"}, {}, {One, Pool}),
  restoreBackup |-> Mutation(<<"image", "restore">>,
      {"id", "datastore", "options"}, {}, {Stray})]

LogoEndpoints == [
  getEncodedLogo |-> Query(<<"logo", "brand">>, {}, {}, {One}),
  getTemplateLogos |-> Query(<<"logo", "templates">>, {}, {}, {One})]

MarketplaceQueries == [
  getMarketplaces |-> Query(<<"marketpool", "info">>, {}, {}, {InPool, Pool}),
  getMarketplace |-> Query(<<"market", "info">>, {"id", "decrypt"}, {}, {One}),
  allocateMarketplace |-> Mutation(<<"market", "allocate">>,
      {"template"}, {}, {Pool}),
  removeMarketplace |-> Mutation(<<"market", "delete">>, {"id"}, {}, {Pool})]

MarketplaceEndpoints == [
  updateMarketplace |-> Mutation(<<"market", "update">>,
      {"id", "template", "replace"}, {D, P}, {One}),
  changeMarketplacePermissions |-> Mutation(<<"market", "chmod">>,
      {"id"} \cup PermissionNames, {}, {One}),
  changeMarketplaceOwnership |-> Mutation(<<"market", "chown">>,
      {"id", "userId", "groupId"}, {}, {One, Pool}),
  renameMarketplace |-> Mutation(<<"market", "rename">>,
      {"id", "name"}, {D, P}, {})]

MarketplaceStateEndpoints == [
  enableMarketplace |-> Mutation(<<"market", "enable">>,
      {"id", "enable"}, {}, {One, Pool}),
  disableMarketplace |-> Mutation(<<"market", "enable">>,
      {"id", "enable"}, {}, {One, Pool})]

AppQueries == [
  getMarketplaceApps |-> Query(<<"marketapppool", "info">>,
      {"filter", "start", "end"}, {}, {InPool, Pool}),
  getMarketplaceApp |-> Query(<<"marketapp", "info">>, {"id"}, {P}, {One}),
  allocateApp |-> Mutation(<<"marketapp", "allocate">>, {"template", "id"}, {}, {}),
  updateApp |-> Mutation(<<"marketapp", "update">>,
      {"id", "template", "replace"}, {D, P}, {One}),
  removeApp |-> Mutation(<<"marketapp", "delete">>, {"id"}, {}, {InPool, Pool})]

AppEndpoints == [
  enableApp |-> Mutation(<<"marketapp", "enable">>,
      {"id", "enable"}, {}, {One, Pool}),
  disableApp |-> Mutation(<<"marketapp", "enable">>,
      {"id", "enable"}, {}, {One, Pool}),
  changeAppPermissions |-> Mutation(<<"marketapp", "chmod">>,
      {"id"} \cup PermissionNames, {D, P}, {One}),
  changeAppOwnership |-> Mutation(<<"marketapp", "chown">>,
      {"id", "user", "group"}, {D, P}, {One})]

AppLockEndpoints == [
  renameApp |-> Mutation(<<"marketapp", "rename">>, {"id", "name"}, {D, P}, {One}),
  lockApp |-> Mutation(<<"marketapp", "lock">>, {"id", "lock"}, {D, P}, {One}),
  unlockApp |-> Mutation(<<"marketapp", "unlock">>, {"id"}, {D, P}, {One}),
  importApp |-> Mutation(<<"marketapp", "import">>,
      {"id", "resource", "marketId", "associated", "vmname"}, {}, {Pool})]

AppDeleteEndpoint == [
  deleteApp |-> Mutation(<<"marketapp", "delete">>, {"id"}, {}, {One})]

AppExportEndpoint == [
  exportApp |-> Mutation(<<"marketapp", "export">>,
      {"id", "name", "datastore", "file", "tag", "template", "associated",
        "vmname"}, {}, {Pool})]

VnetQueries == [
  getVNetworks |-> Query(<<"vnpool", "info">>,
      {"filter", "start", "end", "zone"}, {}, {InPool, Pool}),
  getVNetwork |-> Query(<<"vn", "info">>, {"id", "decrypt"}, {P}, {One}),
  allocateVnet |-> Mutation(<<"vn", "allocate">>, {"template", "cluster"}, {}, {}),
  removeVNet |-> Mutation(<<"vn", "delete">>, {"id"}, {}, {Pool}),
  addRangeToVNet |-> Mutation(<<"vn", "add_ar">>,
      {"id", "template"}, {}, {One, Pool}),
  removeRangeFromVNet |-> Mutation(<<"vn", "rm_ar">>,
      {"id", "address"}, {}, {One, Pool})]

VnetRangeEndpoints == [
  updateVNetRange |-> Mutation(<<"vn", "update_ar">>,
      {"id", "template"}, {}, {One, Pool}),
  reserveAddress |-> Mutation(<<"vn", "reserve">>, {"id", "template"}, {}, {One}),
  freeReservedAR |-> Mutation(<<"vn", "free_ar">>,
      {"id", "range"}, {}, {One, Pool}),
  holdLease |-> Mutation(<<"vn", "hold">>, {"id", "template"}, {}, {One}),
  releaseLease |-> Mutation(<<"vn", "release">>, {"id", "template"}, {}, {One}),
  updateVNet |-> Mutation(<<"vn", "update">>,
      {"id", "template", "replace"}, {D, P}, {One, InPool})]

VnetOwnerEndpoints == [
  changeVNetPermissions |-> Mutation(<<"vn", "chmod">>,
      {"id"} \cup PermissionNames, {D}, {One}),
  changeVNetOwnership |-> Mutation(<<"vn", "chown">>,
      {"id", "user", "group"}, {D}, {One}),
  renameVNet |-> Mutation(<<"vn", "rename">>, {"id", "name"}, {D, P}, {One})]

VnetLockEndpoints == [
  lockVNet |-> Mutation(<<"vn", "lock">>, {"id", "lock", "test"}, {D, P}, {One}),
  unlockVNet |-> Mutation(<<"vn", "unlock">>, {"id"}, {D, P}, {One}),
  recoverVNet |-> Mutation(<<"vn", "recover">>, {"id", "operation"}, {}, {One})]

VnTemplateQueries == [
  getVNTemplates |-> Query(<<"vntemplatepool", "info">>,
      {"filter", "start", "end"}, {}, {InPool, Pool}),
  getVNTemplate |-> Query(<<"vntemplate", "info">>, {"id", "decrypt"}, {}, {One}),
  allocateVNTemplate |-> Mutation(<<"vntemplate", "allocate">>,
      {"template"}, {}, {Pool}),
  cloneVNTemplate |-> Mutation(<<"vntemplate", "clone">>,
      {"id", "name"}, {}, {Pool}),
  removeVNTemplate |-> Mutation(<<"vntemplate", "delete">>, {"id"}, {}, {Pool}),
  instantiateVNTemplate |-> Mutation(<<"vntemplate", "instantiate">>,
      {"id", "name", "template"}, {}, {})]

VnTemplateEndpoints == [
  updateVNTemplate |-> Mutation(<<"vntemplate", "update">>,
      {"id", "template", "replace"}, {D, P}, {One}),
  changeVNTemplatePermissions |-> Mutation(<<"vntemplate", "chmod">>,
      {"id"} \cup PermissionNames, {}, {One}),
  changeVNTemplateOwnership |-> Mutation(<<"vntemplate", "chown">>,
      {"id", "userId", "groupId"}, {D}, {One}),
  renameVNTemplate |-> Mutation(<<"vntemplate", "rename">>,
      {"id", "name"}, {}, {One, Pool})]

VnTemplateLockEndpoints == [
  lockVNTemplate |-> Mutation(<<"vntemplate", "lock">>,
      {"id", "lock"}, {}, {One, Pool}),
  unlockVNTemplate |-> Mutation(<<"vntemplate", "unlock">>,
      {"id"}, {}, {One, Pool})]

ProviderQueries == [
  getProviders |-> Query(<<"providers", "list">>, {}, {}, {InPool, Pool}),
  getProvider |-> Query(<<"providers", "show">>, {"id"}, {}, {One}),
  createProvider |-> Mutation(<<"providers", "create">>, {"template"}, {}, {Pool}),
  updateProvider |-> Mutation(<<"providers", "update">>,
      {"id", "template", "merge"}, {}, {One})]

ProviderEndpoints == [
  renameProvider |-> Mutation(<<"providers", "update">>,
      {"id", "template"}, {P}, {One}),
  removeProvider |-> Mutation(<<"providers", "delete">>, {"id"}, {}, {Pool}),
  changeProviderPermissions |-> Mutation(<<"providers", "chmod">>,
      {"id", "octet"}, {Hole}, {One}),
  changeProviderOwnership |-> Mutation(<<"providers", "chown">>,
      {"id", "owner_id", "group_id"}, {D, P}, {One})]

ProvisionQueries == [
  getProvisions |-> Query(<<"provisions", "list">>, {"extended"}, {}, {}),
  getProvision |-> Query(<<"provisions", "show">>, {"id", "extended"}, {}, {}),
  getProvisionLogs |-> Query(<<"provisions", "logs">>, {"id"}, {}, {}),
  scaleProvisionHosts |-> Mutation(<<"provisions", "scale">>,
      {"id", "amount"}, {}, {}),
  deleteHostProvision |-> Mutation(<<"provisions", "scale">>,
      {"id", "direction", "nodes"}, {}, {}),
  addIpsProvision |-> Mutation(<<"provisions", "add_ip">>,
      {"id", "amount"}, {}, {}),
  deleteIpsProvision |-> Mutation(<<"provisions", "remove_ip">>,
      {"id", "ar_id"}, {}, {})]

ProvisionEndpoints == [
  createProvision |-> Mutation(<<"provisions", "create">>,
      {"template"}, {}, {Pool}),
  retryProvision |-> Mutation(<<"provisions", "retry">>, {"id"}, {}, {One, Pool}),
  undeployProvision |-> Mutation(<<"provisions", "undeploy">>,
      {"id", "force"}, {}, {One, Pool}),
  removeProvision |-> Mutation(<<"provisions", "delete">>,
      {"id", "force"}, {}, {One, Pool})]

SecGroupQueries == [
  getSecGroups |-> Query(<<"secgrouppool", "info">>,
      {"filter", "start", "end"}, {}, {InPool, Pool}),
  getSecGroup |-> Query(<<"secgroup", "info">>, {"id", "decrypt"}, {P}, {One}),
  renameSecGroup |-> Mutation(<<"secgroup", "rename">>,
      {"id", "name"}, {}, {One, Pool}),
  changeSecGroupPermissions |-> Mutation(<<"secgroup", "chmod">>,
      {"id"} \cup PermissionNames, {}, {One}),
  changeSecGroupOwnership |-> Mutation(<<"secgroup", "chown">>,
      {"id", "userId", "groupId"}, {}, {One, Pool})]

SecGroupEndpoints == [
  allocateSecGroup |-> Mutation(<<"secgroup", "allocate">>,
      {"template"}, {}, {Pool}),
  cloneSegGroup |-> Mutation(<<"secgroup", "clone">>, {"id", "name"}, {}, {Pool}),
  removeSecGroup |-> Mutation(<<"secgroup", "delete">>, {"id"}, {}, {Pool}),
  updateSecGroup |-> Mutation(<<"secgroup", "update">>,
      {"id", "template", "replace"}, {}, {One, InPool}),
  commitSegGroup |-> Mutation(<<"secgroup", "commit">>, {"id", "vms"}, {}, {Pool})]

ServiceQueries == [
  getServices |-> Query(<<"service", "show">>, {}, {}, {InPool, Pool}),
  getService |-> Query(<<"service", "show">>, {"id"}, {P}, {One}),
  removeService |-> Mutation(<<"service", "delete">>, {"id"}, {}, {Pool}),
  changeServiceOwner |-> Mutation(<<"service", "addaction">>,
      {"id", "action"}, {D, P}, {One})]

ServiceScaleEndpoints == [
  recoverService |-> Mutation(<<"service", "addaction">>,
      {"id", "action"}, {}, {Stray, Pool}),
  serviceAddRole |-> Mutation(<<"service", "addrole">>,
      {"id", "action"}, {}, {One}),
  serviceScaleRole |-> Mutation(<<"service", "addscale">>,
      {"id", "action"}, {}, {One})]

ServiceActionEndpoints == [
  serviceRoleAction |-> Mutation(<<"service", "addroleaction">>,
      {"id", "role", "action"}, {}, {One}),
  serviceAddAction |-> Mutation(<<"service", "addaction">>,
      {"id", "action"}, {}, {One})]

ServiceTemplateQueries == [
  getServiceTemplates |-> Query(<<"servicetemplate", "show">>,
      {}, {}, {InPool, Pool}),
  getServiceTemplate |-> Query(<<"servicetemplate", "show">>, {"id"}, {P}, {One}),
  createServiceTemplate |-> Mutation(<<"servicetemplate", "create">>,
      {"template"}, {}, {Pool}),
  updateServiceTemplate |-> Mutation(<<"servicetemplate", "action">>,
      {"id", "action"}, {P}, {One})]

ServiceTemplateEndpoints == [
  removeServiceTemplate |-> Mutation(<<"servicetemplate", "delete">>,
      {"id"}, {}, {Pool}),
  deployServiceTemplate |-> Mutation(<<"servicetemplate", "action">>,
      {"id", "action"}, {}, {}),
  changeServiceTemplatePermissions |-> Mutation(<<"servicetemplate", "action">>,
      {"id", "action"}, {}, {One}),
  changeServiceTemplateOwnership |-> Mutation(<<"servicetemplate", "action">>,
      {"id", "action"}, {D, P}, {One})]

ServiceTemplateRenameEndpoint == [
  renameServiceTemplate |-> Mutation(<<"servicetemplate", "action">>,
      {"id", "action"}, {D, P}, {One})]

SupportEndpoints == [
  getTickets |-> Query(<<"zendesk", "list">>, {}, {}, {InPool, Pool}),
  getTicketComments |-> Query(<<"zendesk", "comment">>, {"id"}, {}, {}),
  loginSupport |-> Mutation(<<"zendesk", "login">>, {"user", "pass"}, {}, {})]

SupportCheckEndpoint == [
  checkOfficialSupport |-> Query(<<"support", "check">>, {}, {}, {})]

SystemEndpoints == [
  getOneVersion |-> Query(<<"system", "version">>, {}, {}, {One}),
  getOneConfig |-> Query(<<"system", "config">>, {}, {}, {One}),
  getTabManifest |-> Query(<<"tab", "config">>, {}, {}, {One}),
  getDefaultLabels |-> Query(<<"defaultlabels", "config">>, {}, {}, {One}),
  getSunstoneViews |-> Query(<<"sunstone", "views">>, {}, {}, {One}),
  getSunstoneConfig |-> Query(<<"sunstone", "config">>, {}, {}, {One}),
  getSunstoneAvailableViews |-> Query(<<"sunstone", "availableViews">>,
      {}, {}, {One}),
  getOsProfiles |-> Query(<<"system", "profiles">>, {"id"}, {}, {One})]

SystemVmmEndpoint == [
  getVmmConfig |-> Query(<<"vmm", "config">>, {"hypervisor"}, {}, {One})]

TfaEndpoints == [
  getQr |-> Query(<<"tfa", "qr">>, {}, {}, {}),
  enableTfa |-> Mutation(<<"tfa", "setup">>, {"token"}, {}, {}),
  removeTfa |-> Mutation(<<"tfa", "delete">>, {}, {}, {})]

UserQueries == [
  getUsers |-> Query(<<"userpool", "info">>, {}, {}, {InPool, Pool}),
  getUser |-> Query(<<"user", "info">>, {"id"}, {P}, {One}),
  allocateUser |-> Mutation(<<"user", "allocate">>,
      {"username", "password", "driver", "group"}, {}, {})]

UserEndpoints == [
  updateUser |-> Mutation(<<"user", "update">>,
      {"id", "template", "replace"}, {D, P}, {One}),
  loginUser |-> Mutation(<<"user", "login">>,
      {"user", "token", "expire", "gid"}, {D, P}, {One}),
  removeUser |-> Mutation(<<"user", "delete">>, {"id"}, {}, {Pool}),
  changePassword |-> Mutation(<<"user", "passwd">>, {"id", "password"}, {}, {One})]

UserGroupEndpoints == [
  changeAuthDriver |-> Mutation(<<"user", "chauth">>,
      {"id", "driver", "password"}, {}, {One}),
  changeGroup |-> Mutation(<<"user", "chgrp">>, {"id", "group"}, {D, P}, {One}),
  addGroup |-> Mutation(<<"user", "addgroup">>,
      {"id", "group"}, {D, P}, {One, Pool})]

UserQuotaEndpoints == [
  removeFromGroup |-> Mutation(<<"user", "delgroup">>,
      {"id", "group"}, {D, P}, {One, Pool}),
  enableUser |-> Mutation(<<"user", "enable">>, {"id", "enable"}, {}, {One, Pool}),
  disableUser |-> Mutation(<<"user", "enable">>, {"id", "enable"}, {}, {One, Pool}),
  getUserQuota |-> Query(<<"userquota", "info">>, {}, {}, {}),
  getUserQuotas |-> Query(<<"userquota", "info">>, {}, {}, {}),
  updateUserQuota |-> Mutation(<<"user", "quota">>, {"id", "template"}, {}, {One}),
  updateDefaultUserQuota |-> Mutation(<<"userquota", "update">>,
      {"template"}, {}, {})]

VdcQueries == [
  getVDCs |-> Query(<<"vdcpool", "info">>, {}, {}, {InPool, Pool}),
  getVDC |-> Query(<<"vdc", "info">>, {"id", "decrypt"}, {P}, {One}),
  createVDC |-> Mutation(<<"vdc", "create">>,
      {"template", "groups", "hosts", "datastores", "vnets", "clusters"}, {}, {}),
  removeVDC |-> Mutation(<<"vdc", "delete">>, {"id"}, {}, {Pool}),
  updateVDC |-> Mutation(<<"vdc", "updateVdc">>,
      {"id", "template", "replace"}, {D, P}, {One})]

VdcEndpoints == [
  renameVDC |-> Mutation(<<"vdc", "rename">>, {"id", "name"}, {D, P}, {One}),
  addGroupToVDC |-> Mutation(<<"vdc", "addgroup">>, {"id", "group"}, {}, {One}),
  removeGroupFromVDC |-> Mutation(<<"vdc", "delgroup">>,
      {"id", "group"}, {}, {One}),
  addClusterToVDC |-> Mutation(<<"vdc", "addcluster">>,
      {"id", "zone", "cluster"}, {}, {One}),
  removeClusterFromVDC |-> Mutation(<<"vdc", "delcluster">>,
      {"id", "zone", "cluster"}, {}, {One}),
  addHostToVDC |-> Mutation(<<"vdc", "addhost">>,
      {"id", "zone", "host"}, {}, {One})]

VdcResourceEndpoints == [
  removeHostFromVDC |-> Mutation(<<"vdc", "delhost">>,
      {"id", "zone", "host"}, {}, {One}),
  addDatastoreToVDC |-> Mutation(<<"vdc", "adddatastore">>,
      {"id", "zone", "datastore"}, {}, {One}),
  removeDatastoreFromVDC |-> Mutation(<<"vdc", "deldatastore">>,
      {"id", "zone", "datastore"}, {}, {One}),
  addVNetToVDC |-> Mutation(<<"vdc", "addvnet">>,
      {"id", "zone", "vnet"}, {}, {One}),
  removeVNetFromVDC |-> Mutation(<<"vdc", "delvnet">>,
      {"id", "zone", "vnet"}, {}, {One})]

VmQueries == [
  getVms |-> Query(<<"vmpool", "infoextended">>,
      {"filter", "start", "end", "state", "filterByKey"}, {}, {InPool, Pool}),
  getVmsPaginated |-> Query(<<"vmpool", "paginated">>,
      {"extended", "filter", "start", "end", "state", "filterByKey"}, {}, {InPool,
        Pool}),
  getVm |-> Query(<<"vm", "info">>, {"id"}, {P}, {One, InPool})]

VmMonitoringEndpoints == [
  getGuacamoleSessionFile |-> Query(<<"vm", "guacamole">>, {"id", "type"}, {}, {}),
  getGuacamoleSession |-> Query(<<"vm", "guacamole">>, {"id", "type"}, {}, {}),
  getMonitoring |-> Query(<<"vm", "monitoring">>, {"id"}, {}, {}),
  getMonitoringPool |-> Query(<<"vmpool", "monitoring">>,
      {"filter", "seconds"}, {}, {}),
  getAccountingPool |-> Query(<<"vmpool", "accounting">>,
      {"filter", "start", "end"}, {}, {}),
  getAccountingPoolFiltered |-> Query(<<"vmpool", "accountingfilter">>,
      {"user", "group", "start", "end"}, {}, {}),
  getShowbackPool |-> Query(<<"vmpool", "showback">>,
      {"filter", "startMonth", "startYear", "endMonth", "endYear"}, {}, {})]

VmShowbackEndpoints == [
  getShowbackPoolFiltered |-> Query(<<"vmpool", "showbackfilter">>,
      {"user", "group", "startMonth", "startYear", "endMonth", "endYear"}, {}, {}),
  calculateShowback |-> Query(<<"vmpool", "calculateshowback">>,
      {"startMonth", "startYear", "endMonth", "endYear"}, {}, {}),
  getVmLogs |-> Query(<<"vm", "logs">>, {"id"}, {}, {}),
  allocateVm |-> Mutation(<<"vm", "allocate">>, {"template", "status"}, {}, {})]

VmActionEndpoints == [
  deploy |-> Mutation(<<"vm", "deploy">>,
      {"id", "host", "enforce", "datastore"}, {}, {One, InPool, Pool}),
  actionVm |-> Mutation(<<"vm", "action">>,
      {"id", "action"}, {}, {One, InPool, Pool}),
  migrate |-> Mutation(<<"vm", "migrate">>,
      {"id", "host", "live", "enforce", "datastore", "type"}, {}, {One, InPool,
        Pool}),
  saveAsDisk |-> Mutation(<<"vm", "disksaveas">>,
      {"id", "disk", "name", "type", "snapshot"}, {}, {One, InPool}),
  createDiskSnapshot |-> Mutation(<<"vm", "disksnapshotcreate">>,
      {"id", "disk", "name"}, {}, {One, InPool})]

VmDiskEndpoints == [
  deleteDiskSnapshot |-> Mutation(<<"vm", "disksnapshotdelete">>,
      {"id", "disk", "snapshot"}, {}, {One, InPool}),
  revertDiskSnapshot |-> Mutation(<<"vm", "disksnapshotrevert">>,
      {"id", "disk", "snapshot"}, {}, {One, InPool}),
  renameDiskSnapshot |-> Mutation(<<"vm", "disksnapshotrename">>,
      {"id", "disk", "snapshot", "name"}, {}, {One, InPool}),
  attachDisk |-> Mutation(<<"vm", "attach">>,
      {"id", "template"}, {}, {One, InPool}),
  detachDisk |-> Mutation(<<"vm", "detach">>, {"id", "disk"}, {}, {One, InPool}),
  resizeDisk |-> Mutation(<<"vm", "diskresize">>,
      {"id", "disk", "size"}, {}, {One, InPool})]

VmNicEndpoints == [
  attachNic |-> Mutation(<<"vm", "attachnic">>,
      {"id", "template"}, {}, {One, InPool}),
  detachNic |-> Mutation(<<"vm", "detachnic">>, {"id", "nic"}, {}, {One, InPool}),
  updateNic |-> Mutation(<<"vm", "updatenic">>,
      {"id", "nic", "append", "template"}, {}, {One, InPool}),
  attachSecurityGroup |-> Mutation(<<"vm", "attachsg">>,
      {"id", "nic", "secgroup"}, {}, {One, InPool}),
  detachSecurityGroup |-> Mutation(<<"vm", "detachsg">>,
      {"id", "nic", "secgroup"}, {}, {One, InPool})]

VmOwnerEndpoints == [
  changeVmPermissions |-> Mutation(<<"vm", "chmod">>,
      {"id"} \cup PermissionNames, {D}, {One, InPool}),
  changeVmOwnership |-> Mutation(<<"vm", "chown">>,
      {"id", "user", "group"}, {D}, {One, InPool}),
  renameVm |-> Mutation(<<"vm", "rename">>, {"id", "name"}, {D, P}, {One, InPool}),
  createVmSnapshot |-> Mutation(<<"vm", "snapshotcreate">>,
      {"id", "name"}, {}, {One, InPool})]

VmSnapshotEndpoints == [
  revertVmSnapshot |-> Mutation(<<"vm", "snapshotrevert">>,
      {"id", "snapshot"}, {}, {One, InPool}),
  deleteVmSnapshot |-> Mutation(<<"vm", "snapshotdelete">>,
      {"id", "snapshot"}, {}, {One, InPool}),
  resize |-> Mutation(<<"vm", "resize">>,
      {"id", "template", "enforce"}, {}, {One, InPool}),
  updateUserTemplate |-> Mutation(<<"vm", "update">>,
      {"id", "template", "replace"}, {D, P}, {One, InPool}),
  updateConfiguration |-> Mutation(<<"vm", "updateconf">>,
      {"replace", "id", "template"}, {}, {One, InPool})]

VmRecoverEndpoints == [
  recover |-> Mutation(<<"vm", "recover">>, {"id", "operation"}, {}, {One, InPool}),
  backup |-> Mutation(<<"vm", "backup">>,
      {"id", "dsId", "reset"}, {}, {One, InPool}),
  restore |-> Mutation(<<"vm", "restore">>,
      {"id", "imageId", "incrementId", "diskId"}, {}, {One, InPool}),
  lockVm |-> Mutation(<<"vm", "lock">>,
      {"id", "level", "test"}, {D, P}, {One, InPool})]

VmScheduleEndpoints == [
  unlockVm |-> Mutation(<<"vm", "unlock">>, {"id"}, {D, P}, {One, InPool}),
  addScheduledAction |-> Mutation(<<"vm", "schedadd">>,
      {"id", "template"}, {}, {One, InPool}),
  updateScheduledAction |-> Mutation(<<"vm", "schedupdate">>,
      {"id", "schedId", "template"}, {}, {One, InPool}),
  deleteScheduledAction |-> Mutation(<<"vm", "scheddelete">>,
      {"id", "schedId"}, {}, {One, InPool}),
  attachPci |-> Mutation(<<"vm", "attachpci">>,
      {"id", "template"}, {}, {One, InPool})]

VmPciEndpoint == [
  detachPci |-> Mutation(<<"vm", "detachpci">>, {"id", "nic"}, {}, {One, InPool})]

VmGroupQueries == [
  getVMGroups |-> Query(<<"vmgrouppool", "info">>,
      {"filter", "start", "end"}, {}, {Pool}),
  getVMGroup |-> Query(<<"vmgroup", "info">>, {"id", "decrypt"}, {}, {One}),
  addVMGroupRole |-> Mutation(<<"vmgroup", "roleadd">>,
      {"id", "template"}, {}, {One}),
  updateVMGroupRole |-> Mutation(<<"vmgroup", "roleupdate">>,
      {"id", "roleId", "template"}, {}, {One}),
  deleteVMGroupRole |-> Mutation(<<"vmgroup", "roledelete">>,
      {"id", "roleId"}, {}, {One}),
  lockVMGroup |-> Mutation(<<"vmgroup", "lock">>, {"id"}, {}, {One, Pool}),
  unlockVMGroup |-> Mutation(<<"vmgroup", "unlock">>, {"id"}, {}, {One, Pool})]

VmGroupOwnerEndpoints == [
  renameVMGroup |-> Mutation(<<"vmgroup", "rename">>,
      {"id", "name"}, {D, P}, {One, Pool}),
  changeVMGroupOwnership |-> Mutation(<<"vmgroup", "chown">>,
      {"id", "userId", "groupId"}, {D, P}, {Stray}),
  changeVMGroupPermissions |-> Mutation(<<"vmgroup", "chmod">>,
      {"id"} \cup PermissionNames, {D, P}, {One})]

VmGroupEndpoints == [
  updateVMGroup |-> Mutation(<<"vmgroup", "update">>,
      {"id", "template", "replace"}, {D, P}, {One}),
  removeVMGroup |-> Mutation(<<"vmgroup", "delete">>, {"id"}, {}, {Stray, Pool}),
  allocateVMGroup |-> Mutation(<<"vmgroup", "allocate">>, {"template"}, {}, {})]

TemplateQueries == [
  getTemplates |-> Query(<<"templatepool", "info">>,
      {"filter", "start", "end"}, {}, {InPool, Pool}),
  getTemplate |-> Query(<<"template", "info">>,
      {"id", "extended", "decrypt"}, {P}, {One}),
  allocateTemplate |-> Mutation(<<"template", "allocate">>, {"template"}, {}, {}),
  cloneTemplate |-> Mutation(<<"template", "clone">>,
      {"id", "name", "image"}, {}, {Pool}),
  removeTemplate |-> Mutation(<<"template", "delete">>,
      {"id", "image"}, {}, {Pool}),
  instantiateTemplate |-> Mutation(<<"template", "instantiate">>,
      {"id", "name", "hold", "persistent", "template"}, {}, {})]

TemplateEndpoints == [
  updateTemplate |-> Mutation(<<"template", "update">>,
      {"id", "template", "replace"}, {D, P}, {One}),
  changeTemplatePermissions |-> Mutation(<<"template", "chmod">>,
      {"id"} \cup PermissionNames, {D, P}, {One}),
  changeTemplateOwnership |-> Mutation(<<"template", "chown">>,
      {"id", "user", "group"}, {D, P}, {One})]

TemplateLockEndpoints == [
  renameTemplate |-> Mutation(<<"template", "rename">>,
      {"id", "name"}, {D, P}, {One}),
  lockTemplate |-> Mutation(<<"template", "lock">>,
      {"id", "lock", "test"}, {D, P}, {One}),
  unlockTemplate |-> Mutation(<<"template", "unlock">>, {"id"}, {D, P}, {One})]

VrouterQueries == [
  getVrs |-> Query(<<"vrouterpool", "info">>,
      {"filter", "start", "end"}, {}, {Pool}),
  getVr |-> Query(<<"vrouter", "info">>, {"id", "decrypt"}, {}, {One}),
  changeVrOwnership |-> Mutation(<<"vrouter", "chown">>,
      {"id", "user", "group"}, {D}, {One}),
  changeVrPermissions |-> Mutation(<<"vrouter", "chmod">>,
      {"id"} \cup PermissionNames, {D}, {One})]

VrouterEndpoints == [
  renameVr |-> Mutation(<<"vrouter", "rename">>, {"id", "name"}, {D, P}, {One}),
  updateVr |-> Mutation(<<"vrouter", "update">>,
      {"id", "template", "replace"}, {D, P}, {One}),
  deleteVr |-> Mutation(<<"vrouter", "delete">>, {"id"}, {}, {Pool})]

VrouterTemplateQuery == [
  getVrTemplates |-> Unlisted(Query(<<"templatepool", "info">>,
      {"filter", "start", "end"}, {}, {InPool, Pool}))]

VrouterTemplateEndpoints == [
  allocateVrTemplate |-> Mutation(<<"vrouter", "allocate">>, {"template"}, {}, {}),
  instantiateVrTemplate |-> Mutation(<<"vrouter", "instantiate">>,
      {"id", "name", "hold", "persistent", "template"}, {}, {}),
  updateVrTemplate |-> Unlisted(Mutation(<<"template", "update">>,
      {"id", "template", "replace"}, {D, P}, {One}))]

ZoneQueries == [
  getZones |-> Query(<<"zonepool", "info">>, {}, {}, {InPool, Pool}),
  getZone |-> Query(<<"zone", "info">>, {"id"}, {P}, {One}),
  getRaftStatus |-> Query(<<"zone", "raftstatus">>, {}, {}, {}),
  allocateZone |-> Mutation(<<"zone", "allocate">>, {"template"}, {}, {Every}),
  removeZone |-> Mutation(<<"zone", "delete">>, {"id"}, {}, {Pool})]

ZoneEndpoints == [
  updateZone |-> Mutation(<<"zone", "update">>,
      {"id", "template", "replace"}, {D, P}, {One, Pool}),
  renameZone |-> Mutation(<<"zone", "rename">>, {"id", "name"}, {D, P}, {One})]

(***************************************************************************)
(* The tables of one resource together: its views and what changes them.   *)
(***************************************************************************)
EndpointTables == <<
  AclEndpoints,
  AuthEndpoints,
  BackupJobQueries @@ BackupJobOwnerEndpoints @@ BackupJobRunEndpoints
    @@ BackupJobScheduleEndpoints,
  ClusterQueries @@ ClusterEndpoints @@ ClusterMemberEndpoints,
  DatastoreQueries @@ DatastoreEndpoints,
  DriverEndpoints,
  GroupQueries @@ GroupEndpoints @@ GroupQuotaEndpoints,
  HostQueries @@ HostEndpoints @@ HostMonitoringEndpoints,
  ImagePoolQueries @@ ImageQueries @@ ImageEndpoints
    @@ ImageOwnerEndpoints @@ ImageBackupEndpoints,
  LogoEndpoints,
  MarketplaceQueries @@ MarketplaceEndpoints @@ MarketplaceStateEndpoints,
  AppQueries @@ AppEndpoints @@ AppLockEndpoints @@ AppDeleteEndpoint
    @@ AppExportEndpoint,
  VnetQueries @@ VnetRangeEndpoints @@ VnetOwnerEndpoints @@ VnetLockEndpoints,
  VnTemplateQueries @@ VnTemplateEndpoints @@ VnTemplateLockEndpoints,
  ProviderQueries @@ ProviderEndpoints,
  ProvisionQueries @@ ProvisionEndpoints,
  SecGroupQueries @@ SecGroupEndpoints,
  ServiceQueries @@ ServiceScaleEndpoints @@ ServiceActionEndpoints,
  ServiceTemplateQueries @@ ServiceTemplateEndpoints
    @@ ServiceTemplateRenameEndpoint,
  SupportEndpoints @@ SupportCheckEndpoint,
  SystemEndpoints @@ SystemVmmEndpoint,
  TfaEndpoints,
  UserQueries @@ UserEndpoints @@ UserGroupEndpoints @@ UserQuotaEndpoints,
  VdcQueries @@ VdcEndpoints @@ VdcResourceEndpoints,
  VmQueries @@ VmMonitoringEndpoints @@ VmShowbackEndpoints
    @@ VmActionEndpoints @@ VmDiskEndpoints @@ VmNicEndpoints
    @@ VmOwnerEndpoints @@ VmSnapshotEndpoints @@ VmRecoverEndpoints
    @@ VmScheduleEndpoints @@ VmPciEndpoint,
  VmGroupQueries @@ VmGroupOwnerEndpoints @@ VmGroupEndpoints,
  TemplateQueries @@ TemplateEndpoints @@ TemplateLockEndpoints
    @@ VrouterTemplateQuery @@ VrouterTemplateEndpoints,
  VrouterQueries @@ VrouterEndpoints,
  ZoneQueries @@ ZoneEndpoints>>

================================================================================
