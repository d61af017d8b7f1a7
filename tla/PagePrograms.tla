------------------------------ MODULE PagePrograms ------------------------------
(***************************************************************************)
(* The handlers of FireEdge's pages, as PageSubmit runs them: the forms    *)
(* that create, update or instantiate, and the buttons of every table.     *)
(* A handler is kept down to what decides its control: which calls it      *)
(* makes, for what, in which order, which it awaits, which failures it     *)
(* lets through, and what it announces.                                    *)
(***************************************************************************)
EXTENDS Sequences

\* await f(...).unwrap(): one call; a refusal throws.
Call(e) ==
  [eps |-> {e}, of |-> "one", strict |-> TRUE, waits |-> TRUE, makes |-> FALSE,
   fresh |-> FALSE, reads |-> "", tells |-> FALSE, mute |-> FALSE]
\* await f(...) without unwrap(): a refusal is as good as an answer.
Try(e, of) == [Call(e) EXCEPT !.of = of, !.strict = FALSE]
\* await Promise.all(ids.map(f)), one call per row.
Each(e) == Try(e, "rows")
Either(e1, e2) == [Each(e1) EXCEPT !.eps = {e1, e2}]
\* rows.map(f): nobody waits.
Loose(e) == [Each(e) EXCEPT !.waits = FALSE]
Strict(c) == [c EXCEPT !.strict = TRUE]
Of(c, of) == [c EXCEPT !.of = of]
\* It creates the object that later calls are about; it is such a later call.
Makes(c) == [c EXCEPT !.makes = TRUE]
OnNew(c) == [c EXCEPT !.fresh = TRUE]
\* The page shows a message of its own when it fails.
Told(c) == [c EXCEPT !.tells = TRUE]
\* An endpoint with a queryFn that does not notify a refusal.
Mute(c) == [c EXCEPT !.mute = TRUE]
\* What the handler takes for granted of the response: a document, a list, an
\* ID that is not 0; "local" is a call that sends no request.
Reading(c, what) == [c EXCEPT !.reads = what]
Local(c) == Reading(Strict(c), "local")

Handler(gate, stages) ==
  [gate |-> gate, stages |-> stages, chained |-> FALSE, clears |-> FALSE, says |-> FALSE]
\* A dialog with one button; one with the steps of a form; no dialog at all.
Dialog(c) == Handler("dialog", << <<c>> >>)
Steps(c) == Handler("steps", << <<c>> >>)
Click(c) == Handler("button", << <<c>> >>)
\* setSelectedRows([]) at the end.
Clearing(c) == [Dialog(c) EXCEPT !.clears = TRUE]
\* enqueueSuccess or enqueueInfo, and history.push in a form, at the end.
Saying(h) == [h EXCEPT !.says = TRUE]
Form(stages) == Saying(Handler("stepper", stages))
Simple(e) == Form(<< <<Call(e)>> >>)
Chained(h) == [h EXCEPT !.chained = TRUE]

\* needs: how many rows have to be selected.
Button(needs, options) == [needs |-> needs, options |-> options]
Go(needs, form) == Button(needs, [GO |-> form])

-----------------------------------------------------------------------------
(* Forms. *)

AclCreate == Form(<< <<Told(Call("allocateAcl"))>> >>)
\* The first backup job has ID 0.
BackupJobCreate == Form(<< <<Reading(Call("createBackupJob"), "truthy")>> >>)
ClusterCreate == Form(<<
  <<Makes(Told(Call("allocateCluster")))>>,
  <<OnNew(Try("addHostToCluster", "some"))>>, <<OnNew(Try("updateCluster", "maybe"))>>,
  <<OnNew(Try("addNetworkToCluster", "some"))>>,
  <<OnNew(Try("addDatastoreToCluster", "some"))>> >>)
ClusterUpdate == Form(<<
  <<Try("addHostToCluster", "some")>>, <<Try("removeHostFromCluster", "some")>>,
  <<Try("addNetworkToCluster", "some")>>, <<Try("removeNetworkFromCluster", "some")>>,
  <<Try("addDatastoreToCluster", "some")>>, <<Try("removeDatastoreFromCluster", "some")>>,
  <<Told(Of(Call("renameCluster"), "maybe"))>>, <<Try("updateCluster", "maybe")>> >>)
CloudCreate == Form(<< <<Told(Reading(Call("createProvision"), "document"))>> >>)
DatastoreCreate == Simple("allocateDatastore")
DatastoreUpdate == Simple("updateDatastore")
\* A failed upload does not stop the file from being registered.
FileCreate == Form(<<
  <<Mute(Try("uploadImage", "maybe"))>>, <<Call("allocateImage")>> >>)
\* The template of the group is updated by a call nobody waits for.
GroupRest == <<
  <<OnNew(Try("allocateAcl", "maybe"))>>, <<OnNew(Try("allocateAcl", "maybe"))>>,
  <<OnNew([Try("updateGroup", "maybe") EXCEPT !.waits = FALSE])>> >>
GroupCreate == 
  Form(<< <<Makes(Told(Call("allocateGroup")))>> >> \o GroupRest)
GroupCreateWithAdmin == Form(<<
  <<Makes(Told(Call("allocateGroup")))>>, <<OnNew(Told(Call("allocateUser")))>>,
  <<OnNew(Told(Call("addAdminToGroup")))>> >> \o GroupRest)
GroupUpdate == Form(<< <<[Try("updateGroup", "maybe") EXCEPT !.waits = FALSE]>> >>)
HostCreate == Simple("allocateHost")
\* Without its upload the image is not registered.
ImageCreate == Form(<<
  <<Told(Mute(Reading(Of(Call("uploadImage"), "maybe"), "array")))>>,
  <<Call("allocateImage")>> >>)
\* A refusal is a response too.
AppCreate == Form(<< <<Of(Either("allocateApp", "importApp"), "one")>> >>)
MarketplaceCreate == Form(<< <<Told(Call("allocateMarketplace"))>> >>)
MarketplaceUpdate == Form(<<
  <<Told(Of(Call("renameMarketplace"), "maybe"))>>, <<Told(Call("updateMarketplace"))>> >>)
ProviderCreate == Form(<< <<Told(Reading(Call("createProvider"), "document"))>> >>)
ProviderUpdate == Form(<< <<Told(Call("updateProvider"))>> >>)
SecGroupCreate == Simple("allocateSecGroup")
SecGroupUpdate == Simple("updateSecGroup")
\* A lost response cannot be taken apart, and nobody says so.
ServiceTemplateCreate == Form(<< <<Reading(Call("createServiceTemplate"), "document")>> >>)
ServiceTemplateUpdate == Simple("updateServiceTemplate")
ServiceInstantiate == Form(<< <<Of(Call("deployServiceTemplate"), "many")>> >>)
UserCreate == Simple("allocateUser")
VdcCreate == Simple("createVDC")
VdcUpdate == Simple("updateVDC")
VnetCreate == Simple("allocateVnet")
VnetUpdate == Simple("updateVNet")
VnTemplateCreate == Simple("allocateVNTemplate")
VnTemplateUpdate == Simple("updateVNTemplate")
VnInstantiate == Simple("instantiateVNTemplate")
VrTemplateCreate == Simple("allocateTemplate")
VrTemplateUpdate == Simple("updateTemplate")
\* One chain per router: allocate it, then instantiate it.
VrInstantiate == Chained(Form(<<
  <<Makes(Of(Call("allocateVrTemplate"), "many"))>>,
  <<OnNew(Of(Call("instantiateVrTemplate"), "many"))>> >>))
VmGroupCreate == Simple("allocateVMGroup")
\* The reduce over a role's properties awaits its last promise only.
VmGroupUpdate == Form(<<
  <<Try("addVMGroupRole", "some"), Try("updateVMGroupRole", "some"),
   [Try("updateVMGroupRole", "some") EXCEPT !.waits = FALSE]>>,
  <<Call("updateVMGroup")>>,
  <<Try("deleteVMGroupRole", "some")>> >>)
VmTemplateCreate == Form(<< <<Try("getOsProfiles", "maybe")>>, <<Call("allocateTemplate")>> >>)
VmTemplateUpdate == Form(<< <<Try("getOsProfiles", "maybe")>>, <<Call("updateTemplate")>> >>)
VmInstantiate == Form(<< <<Of(Call("instantiateTemplate"), "many")>> >>)

-----------------------------------------------------------------------------
(* The buttons of the tables. *)

ACLsActions == <<
  Go("any", AclCreate),
  Go("any", AclCreate),
  Button("some", [DELETE |-> Clearing(Each("removeAcl"))]) >>

BackupJobsActions1 == <<
  Go("any", BackupJobCreate),
  Button("some", [START |-> Dialog(Each("startBackupJob"))]),
  Button("some", [CANCEL |-> Dialog(Each("cancelBackupJob"))]),
  Button("some", [CHANGE_OWNER |-> Dialog(Each("changeBackupJobOwnership")),
                  CHANGE_GROUP |-> Dialog(Each("changeBackupJobOwnership"))]) >>

BackupJobsActions2 == <<
  Button("some", [LOCK |-> Dialog(Each("lockBackupJob")),
                  UNLOCK |-> Dialog(Each("unlockBackupJob"))]),
  Button("some", [DELETE |-> Clearing(Each("removeBackupJob"))]) >>

BackupsActions1 == <<
  Button("one", [RESTORE |-> Steps(Each("restoreBackup"))]),
  Button("some", [CHANGE_OWNER |-> Dialog(Each("changeImageOwnership")),
                  CHANGE_GROUP |-> Dialog(Each("changeImageOwnership"))]) >>

BackupsActions2 == <<
  Button("some", [DELETE |-> Clearing(Each("removeImage"))]) >>

ClustersActions == <<
  Button("any", [CLUSTER |-> ClusterCreate, CLOUD |-> CloudCreate]),
  Go("one", ClusterUpdate),
  Button("some", [DEPROVISION |-> Clearing(Each("undeployProvision"))]),
  Button("some", [RETRY |-> Clearing(Each("retryProvision"))]),
  Button("some", [DELETE |-> Clearing(Either("removeCluster", "removeProvision"))]) >>

DatastoresActions1 == <<
  Go("any", DatastoreCreate),
  Go("one", DatastoreUpdate),
  Button("one", [CHANGE_CLUSTER |-> Handler("dialog", <<
    <<Try("addDatastoreToCluster", "some")>>,
    <<Try("removeDatastoreFromCluster", "some")>> >>)]),
  Button("some", [ENABLE |-> Dialog(Each("enableDatastore")),
                  DISABLE |-> Dialog(Each("disableDatastore"))]) >>

DatastoresActions2 == <<
  Button("some", [CHANGE_OWNER |-> Dialog(Each("changeDatastoreOwnership")),
                  CHANGE_GROUP |-> Dialog(Each("changeDatastoreOwnership"))]),
  Button("some", [DELETE |-> Clearing(Each("removeDatastore"))]) >>

DriversActions == <<
  Button("any", [SYNC |-> Dialog(Try("syncDrivers", "one"))]),
  Button("some", [ENABLE |-> Dialog(Each("enableDriver"))]),
  Button("some", [DISABLE |-> Dialog(Each("disableDriver"))]) >>

FilesActions == <<
  Go("any", FileCreate),
  Button("some", [ENABLE |-> Dialog(Each("enableImage")),
                  DISABLE |-> Dialog(Each("disableImage"))]),
  Button("some", [CHANGE_OWNER |-> Dialog(Each("changeImageOwnership")),
                  CHANGE_GROUP |-> Dialog(Each("changeImageOwnership"))]),
  Button("some", [DELETE |-> Clearing(Each("removeImage"))]) >>

GroupsActions == <<
  Button("any", [PLAIN |-> GroupCreate, ADMIN |-> GroupCreateWithAdmin]),
  Go("one", GroupUpdate),
  Button("some", [DELETE |-> Clearing(Each("removeGroup"))]) >>

HostsActions1 == <<
  Go("any", HostCreate),
  Button("some", [CHANGE_CLUSTER |-> Dialog(Each("addHostToCluster"))]),
  Button("some", [ENABLE |-> Dialog(Each("enableHost"))]),
  Button("some", [DISABLE |-> Dialog(Each("disableHost"))]),
  Button("some", [OFFLINE |-> Dialog(Each("offlineHost"))]) >>

HostsActions2 == <<
  Button("one", [FLUSH |-> Dialog(Strict(Each("flush")))]),
  Button("some", [DELETE |-> Clearing(Each("removeHost"))]) >>

ImagesActions1 == <<
  Go("any", ImageCreate),
  Go("one", AppCreate),
  Button("some", [CLONE |-> Steps(Each("cloneImage"))]),
  Button("some", [LOCK |-> Dialog(Each("lockImage")),
                  UNLOCK |-> Dialog(Each("unlockImage"))]) >>

ImagesActions2 == <<
  Button("some", [ENABLE |-> Dialog(Each("enableImage")),
                  DISABLE |-> Dialog(Each("disableImage")),
                  PERSISTENT |-> Dialog(Each("persistentImage")),
                  NON_PERSISTENT |-> Dialog(Each("persistentImage"))]),
  Button("some", [CHANGE_OWNER |-> Dialog(Each("changeImageOwnership")),
                  CHANGE_GROUP |-> Dialog(Each("changeImageOwnership"))]),
  Button("some", [DELETE |-> Clearing(Each("removeImage"))]) >>

MarketplaceAppsActions1 == <<
  Go("any", AppCreate),
  Button("one", [EXPORT |-> Saying(Steps(Strict(Each("exportApp"))))]),
  Button("some", [DOWNLOAD |-> Click(Local(Each("downloadApp")))]),
  Button("some", [LOCK |-> Dialog(Each("lockApp")),
                  UNLOCK |-> Dialog(Each("unlockApp"))]),
  Button("some", [ENABLE |-> Dialog(Each("enableApp")),
                  DISABLE |-> Dialog(Each("disableApp"))]) >>

MarketplaceAppsActions2 == <<
  Button("some", [CHANGE_OWNER |-> Dialog(Each("changeAppOwnership")),
                  CHANGE_GROUP |-> Dialog(Each("changeAppOwnership"))]),
  Button("some", [DELETE |-> Clearing(Each("deleteApp"))]) >>

MarketplacesActions == <<
  Go("any", MarketplaceCreate),
  Go("one", MarketplaceUpdate),
  Button("some", [ENABLE |-> Dialog(Each("enableMarketplace")),
                  DISABLE |-> Dialog(Each("disableMarketplace"))]),
  Button("some", [CHANGE_OWNER |-> Dialog(Each("changeMarketplaceOwnership")),
                  CHANGE_GROUP |-> Dialog(Each("changeMarketplaceOwnership"))]),
  Button("some", [DELETE |-> Clearing(Each("removeMarketplace"))]) >>

ProvidersActions == <<
  Go("any", ProviderCreate),
  Go("one", ProviderUpdate),
  Button("some", [CHANGE_OWNER |-> Dialog(Loose("changeProviderOwnership")),
                  CHANGE_GROUP |-> Dialog(Each("changeProviderOwnership"))]),
  Button("some", [DELETE |-> Clearing(Each("removeProvider"))]) >>

SecurityGroupsActions1 == <<
  Go("any", SecGroupCreate),
  Go("one", SecGroupUpdate),
  Button("some", [CLONE |-> Dialog(Each("cloneSegGroup"))]),
  Button("some", [COMMIT |-> Dialog(Each("commitSegGroup"))]) >>

SecurityGroupsActions2 == <<
  Button("some", [CHANGE_OWNER |-> Dialog(Each("changeSecGroupOwnership")),
                  CHANGE_GROUP |-> Dialog(Each("changeSecGroupOwnership"))]),
  Button("some", [DELETE |-> Clearing(Each("removeSecGroup"))]) >>

ServiceTemplatesActions1 == <<
  Go("any", ServiceTemplateCreate),
  Go("one", ServiceInstantiate),
  Go("one", ServiceTemplateUpdate),
  Button("some", [CHANGE_OWNER |-> Dialog(Loose("changeServiceTemplateOwnership")),
                  CHANGE_GROUP |-> Dialog(Each("changeServiceTemplateOwnership"))]) >>

ServiceTemplatesActions2 == <<
  Button("some", [DELETE |-> Clearing(Each("removeServiceTemplate"))]) >>

ServicesActions1 == <<
  Go("any", ServiceInstantiate),
  Button("some", [CHANGE_OWNER |-> Dialog(Loose("changeServiceOwner")),
                  CHANGE_GROUP |-> Dialog(Each("changeServiceOwner"))]),
  Button("some", [RECOVER |-> Dialog(Each("recoverService")),
                  RECOVER_DELETE |-> Dialog(Each("recoverService"))]) >>

ServicesActions2 == <<
  Button("some", [DELETE |-> Clearing(Each("removeService"))]) >>

SupportActions == <<
  Button("any", [CREATE_DIALOG |-> Steps(Mute(Try("createTicket", "one")))]) >>

UsersActions == <<
  Go("any", UserCreate),
  Button("some", [ENABLE |-> Click(Each("enableUser"))]),
  Button("some", [DISABLE |-> Click(Each("disableUser"))]),
  Button("some", [DELETE |-> Clearing(Each("removeUser"))]) >>

VirtualDataCentersActions == <<
  Go("any", VdcCreate),
  Go("one", VdcUpdate),
  Button("some", [DELETE |-> Clearing(Each("removeVDC"))]) >>

VmGroupsActions == <<
  Go("any", VmGroupCreate),
  Go("one", VmGroupUpdate),
  Button("some", [ENABLE |-> Click(Each("unlockVMGroup"))]),
  Button("some", [DISABLE |-> Click(Each("lockVMGroup"))]),
  Button("some", [DELETE |-> Clearing(Each("removeVMGroup"))]) >>

VmTemplatesActions1 == <<
  Go("any", VmTemplateCreate),
  Go("one", VmInstantiate),
  Go("one", AppCreate),
  Go("one", VmTemplateUpdate),
  Button("some", [CLONE |-> Dialog(Each("cloneTemplate"))]) >>

VmTemplatesActions2 == <<
  Button("some", [CHANGE_OWNER |-> Dialog(Loose("changeTemplateOwnership")),
                  CHANGE_GROUP |-> Dialog(Each("changeTemplateOwnership")),
                  SHARE |-> Dialog(Loose("changeTemplatePermissions")),
                  UNSHARE |-> Dialog(Loose("changeTemplatePermissions"))]),
  Button("some", [LOCK |-> Dialog(Each("lockTemplate")),
                  UNLOCK |-> Dialog(Each("unlockTemplate"))]) >>

VmTemplatesActions3 == <<
  Button("some", [DELETE |-> Clearing(Each("removeTemplate"))]) >>

VmsActions1 == <<
  Go("any", VmInstantiate),
  Button("some", [RESUME |-> Click(Each("actionVm"))]) >>

VmsActions2 == <<
  Button("some", [SUSPEND |-> Dialog(Each("actionVm")),
                  STOP |-> Dialog(Each("actionVm")),
                  POWEROFF |-> Dialog(Each("actionVm")),
                  POWEROFF_HARD |-> Dialog(Each("actionVm")),
                  REBOOT |-> Dialog(Each("actionVm")),
                  REBOOT_HARD |-> Dialog(Each("actionVm")),
                  UNDEPLOY |-> Dialog(Each("actionVm")),
                  UNDEPLOY_HARD |-> Dialog(Each("actionVm")),
                  DEPLOY |-> Steps(Each("deploy")), HOLD |-> Dialog(Each("actionVm"))]) >>

VmsActions3 == <<
  Button("some", [MIGRATE |-> Steps(Each("migrate")),
                  MIGRATE_LIVE |-> Steps(Each("migrate")),
                  RELEASE |-> Dialog(Each("actionVm")),
                  RESCHED |-> Dialog(Each("actionVm")),
                  UNRESCHED |-> Dialog(Each("actionVm")),
                  RECOVER |-> Dialog(Each("recover")),
                  BACKUP |-> Steps(Each("backup")),
                  RESTORE |-> Steps(Try("restore", "first"))]) >>

VmsActions4 == <<
  Go("one", AppCreate),
  Button("one", [SAVE_AS_TEMPLATE |-> Saying(Dialog(Mute(Each("saveAsTemplate"))))]),
  Button("some", [CHANGE_OWNER |-> Dialog(Each("changeVmOwnership")),
                  CHANGE_GROUP |-> Dialog(Each("changeVmOwnership"))]),
  Button("some", [LOCK |-> Dialog(Each("lockVm")), UNLOCK |-> Dialog(Each("unlockVm"))]) >>

VmsActions5 == <<
  Button("some", [TERMINATE |-> Clearing(Each("actionVm")),
                  TERMINATE_HARD |-> Clearing(Each("actionVm"))]) >>

VnTemplatesActions1 == <<
  Go("any", VnTemplateCreate),
  Go("one", VnInstantiate),
  Go("one", VnTemplateUpdate),
  Button("some", [CHANGE_CLUSTER |-> Dialog(Each("addNetworkToCluster"))]),
  Button("some", [CHANGE_OWNER |-> Dialog(Loose("changeVNTemplateOwnership")),
                  CHANGE_GROUP |-> Dialog(Each("changeVNTemplateOwnership"))]) >>

VnTemplatesActions2 == <<
  Button("some", [LOCK |-> Dialog(Each("lockVNTemplate")),
                  UNLOCK |-> Dialog(Each("unlockVNTemplate"))]),
  Button("some", [DELETE |-> Clearing(Each("removeVNTemplate"))]) >>

VnsActions1 == <<
  Go("any", VnetCreate),
  Go("any", VnInstantiate),
  Go("one", VnetUpdate),
  Button("one", [RESERVE_DIALOG |-> Dialog(Each("reserveAddress"))]),
  Button("one", [RECOVER |-> Dialog(Each("recoverVNet"))]) >>

VnsActions2 == <<
  Button("one", [RESERVE |-> Dialog(Each("reserveAddress"))]),
  Button("some", [CHANGE_CLUSTER |-> Dialog(Each("addNetworkToCluster"))]),
  Button("some", [CHANGE_OWNER |-> Dialog(Loose("changeVNetOwnership")),
                  CHANGE_GROUP |-> Dialog(Each("changeVNetOwnership"))]),
  Button("some", [LOCK |-> Dialog(Each("lockVNet")),
                  UNLOCK |-> Dialog(Each("unlockVNet"))]) >>

VnsActions3 == <<
  Button("some", [DELETE |-> Clearing(Each("removeVNet"))]) >>

VrTemplatesActions1 == <<
  Go("any", VrTemplateCreate),
  Go("one", VrInstantiate),
  Go("one", VrTemplateUpdate),
  Button("some", [CLONE |-> Dialog(Each("cloneTemplate"))]) >>

VrTemplatesActions2 == <<
  Button("some", [CHANGE_OWNER |-> Dialog(Loose("changeTemplateOwnership")),
                  CHANGE_GROUP |-> Dialog(Each("changeTemplateOwnership")),
                  SHARE |-> Dialog(Loose("changeTemplatePermissions")),
                  UNSHARE |-> Dialog(Loose("changeTemplatePermissions"))]),
  Button("some", [LOCK |-> Handler("dialog", <<
                    <<Loose("lockTemplate"), Each("getVrTemplates")>> >>),
                  UNLOCK |-> Handler("dialog", <<
                    <<Loose("unlockTemplate"), Each("getVrTemplates")>> >>)]) >>

VrTemplatesActions3 == <<
  Button("some", [DELETE |-> Clearing(Each("removeTemplate"))]) >>

VrsActions1 == <<
  Go("any", VrInstantiate),
  Button("some", [CHANGE_OWNER |-> Dialog(Loose("changeTemplateOwnership")),
                  CHANGE_GROUP |-> Dialog(Each("changeTemplateOwnership")),
                  SHARE |-> Dialog(Loose("changeTemplatePermissions")),
                  UNSHARE |-> Dialog(Loose("changeTemplatePermissions"))]),
  Button("some", [LOCK |-> Dialog(Each("lockTemplate")),
                  UNLOCK |-> Dialog(Each("unlockTemplate"))]) >>

VrsActions2 == <<
  Button("some", [DELETE |-> Clearing(Each("deleteVr"))]) >>

AllButtons ==
  <<ACLsActions, BackupJobsActions1, BackupJobsActions2, BackupsActions1,
    BackupsActions2, ClustersActions, DatastoresActions1, DatastoresActions2,
    DriversActions, FilesActions, GroupsActions, HostsActions1, HostsActions2,
    ImagesActions1, ImagesActions2, MarketplaceAppsActions1,
    MarketplaceAppsActions2, MarketplacesActions, ProvidersActions,
    SecurityGroupsActions1, SecurityGroupsActions2, ServiceTemplatesActions1,
    ServiceTemplatesActions2, ServicesActions1, ServicesActions2, SupportActions,
    UsersActions, VirtualDataCentersActions, VmGroupsActions,
    VmTemplatesActions1, VmTemplatesActions2, VmTemplatesActions3, VmsActions1,
    VmsActions2, VmsActions3, VmsActions4, VmsActions5, VnTemplatesActions1,
    VnTemplatesActions2, VnsActions1, VnsActions2, VnsActions3,
    VrTemplatesActions1, VrTemplatesActions2, VrTemplatesActions3, VrsActions1,
    VrsActions2>>

=================================================================================
